---------------------------- MODULE Spec2Model ----------------------------
(***************************************************************************)
(* A model of the GEMSrun expression engine: the expression parser and the *)
(* constant-value validator of gemsrun/utils/safestrfunc.py, and the rule  *)
(* dispatcher and timer scheduler of gemsrun/gui/viewpanel.py.             *)
(*                                                                         *)
(* Texts are sequences of one-character strings.                           *)
(***************************************************************************)
EXTENDS Integers, Sequences, FiniteSets, TLC

(***************************************************************************)
(* Characters                                                              *)
(***************************************************************************)
Digits == {"0", "1", "2", "3", "4", "5", "6", "7", "8", "9"}

Letters ==
    {"a", "b", "c", "d", "e", "f", "g", "h", "i", "j", "k", "l", "m",
     "n", "o", "p", "q", "r", "s", "t", "u", "v", "w", "x", "y", "z",
     "A", "B", "C", "D", "E", "F", "G", "H", "I", "J", "K", "L", "M",
     "N", "O", "P", "Q", "R", "S", "T", "U", "V", "W", "X", "Y", "Z"}

\* the class \w of the re module
WordChars == Digits \cup Letters \cup {"_"}

\* the class \s of the re module, and what str.strip() removes
Whitespace == {" ", "\t"}

DQ == "\""

SeqBoundaries == {"[", "]", "(", ")", "{", "}"}

(***************************************************************************)
(* Sequence helpers standing for the str methods the code uses             *)
(***************************************************************************)
Drop(s, n) == SubSeq(s, n + 1, Len(s))

Take(s, n) == SubSeq(s, 1, n)

\* number of leading characters of s that belong to cls
RECURSIVE RunLen(_, _)
RunLen(s, cls) ==
    IF s = << >> \/ Head(s) \notin cls THEN 0 ELSE 1 + RunLen(Tail(s), cls)

LStrip(s) == Drop(s, RunLen(s, Whitespace))

RECURSIVE RStrip(_)
RStrip(s) ==
    IF s # << >> /\ s[Len(s)] \in Whitespace THEN RStrip(Take(s, Len(s) - 1)) ELSE s

\* str.strip()
Strip(s) == RStrip(LStrip(s))

StartsWith(s, p) == Len(s) >= Len(p) /\ Take(s, Len(p)) = p

\* str.replace(old, new), old non-empty
RECURSIVE Replace(_, _, _)
Replace(s, old, new) ==
    IF s = << >> THEN << >>
    ELSE IF StartsWith(s, old) THEN new \o Replace(Drop(s, Len(old)), old, new)
    ELSE <<Head(s)>> \o Replace(Tail(s), old, new)

\* position of the first occurrence of p in s at or after i, 0 when there is none
RECURSIVE Find(_, _, _)
Find(s, p, i) ==
    IF i + Len(p) - 1 > Len(s) THEN 0
    ELSE IF SubSeq(s, i, i + Len(p) - 1) = p THEN i
    ELSE Find(s, p, i + 1)

Reverse(s) == [k \in 1..Len(s) |-> s[Len(s) + 1 - k]]

(***************************************************************************)
(* ast.parse: the tokens of one logical line                               *)
(***************************************************************************)
\* A token is one of "NUM", "NAME", "CONST", "STR", ",", "[", "]", "(", ")",
\* "-", or "ERR" for a text the tokenizer rejects.
RECURSIVE Tokens(_)
Tokens(s) ==
    IF s = << >> THEN << >>
    ELSE LET c == Head(s) IN
    CASE c \in Whitespace -> Tokens(Tail(s))
      [] c = "#" -> << >>
      [] c \in Digits ->
            LET n == RunLen(s, Digits)
                rest == Drop(s, n)
                lead0 == c = "0" /\ \E k \in 1..n : s[k] # "0"
            IN  IF lead0 \/ (rest # << >> /\ Head(rest) \in Letters \cup {"_"})
                THEN <<"ERR">>
                ELSE <<"NUM">> \o Tokens(rest)
      [] c \in Letters \cup {"_"} ->
            LET n == RunLen(s, WordChars)
                word == Take(s, n)
                kind == IF word \in {<<"T", "r", "u", "e">>,
                                     <<"F", "a", "l", "s", "e">>,
                                     <<"N", "o", "n", "e">>}
                        THEN "CONST" ELSE "NAME"
            IN  <<kind>> \o Tokens(Drop(s, n))
      [] c = DQ ->
            IF StartsWith(s, <<DQ, DQ, DQ>>)
            THEN LET e == Find(s, <<DQ, DQ, DQ>>, 4) IN
                 IF e = 0 THEN <<"ERR">> ELSE <<"STR">> \o Tokens(Drop(s, e + 2))
            ELSE LET e == Find(s, <<DQ>>, 2) IN
                 IF e = 0 THEN <<"ERR">> ELSE <<"STR">> \o Tokens(Drop(s, e))
      [] c \in {",", "[", "]", "(", ")", "-"} -> <<c>> \o Tokens(Tail(s))
      [] OTHER -> <<"ERR">>

(***************************************************************************)
(* ast.parse: the expression grammar over those tokens.  A parse result is *)
(* [ok, pos, kind]: whether the rule matched, the index of the first token *)
(* after the match, and the class of the AST node built.                   *)
(***************************************************************************)
Fail == [ok |-> FALSE, pos |-> 0, kind |-> "SyntaxError", inner |-> {}]

\* inner: the classes of the nodes of the subtree, the root's own included
Node(p, k, sub) == [ok |-> TRUE, pos |-> p, kind |-> k, inner |-> sub \cup {k}]

At(t, i) == IF i <= Len(t) THEN t[i] ELSE "END"

RECURSIVE ParseExpr(_, _), ParseSumRest(_, _), ParseFactor(_, _),
          ParseTrailers(_, _), ParseAtom(_, _), ParseItems(_, _, _, _, _)

\* sum: sum '-' term | term
ParseExpr(t, i) ==
    LET Sum(l) == IF l.ok THEN ParseSumRest(t, l) ELSE Fail
    IN  Sum(ParseFactor(t, i))

ParseSumRest(t, l) ==
    LET Right(r) ==
            IF r.ok THEN ParseSumRest(t, Node(r.pos, "BinOp", l.inner \cup r.inner))
            ELSE Fail
    IN  IF At(t, l.pos) = "-" THEN Right(ParseFactor(t, l.pos + 1)) ELSE l

\* factor: '-' factor | primary
ParseFactor(t, i) ==
    LET Negated(r) == IF r.ok THEN Node(r.pos, "UnaryOp", r.inner) ELSE Fail
        Primary(a) == IF a.ok THEN ParseTrailers(t, a) ELSE Fail
    IN  IF At(t, i) = "-" THEN Negated(ParseFactor(t, i + 1))
        ELSE Primary(ParseAtom(t, i))

\* primary: primary '(' [arguments] ')' | primary '[' slices ']' | atom
ParseTrailers(t, a) ==
    LET Trailer(r, k) ==
            IF r.ok THEN ParseTrailers(t, Node(r.pos, k, r.inner)) ELSE Fail
    IN  CASE At(t, a.pos) = "(" ->
                Trailer(ParseItems(t, a.pos + 1, ")", TRUE, a.inner), "Call")
          [] At(t, a.pos) = "[" ->
                Trailer(ParseItems(t, a.pos + 1, "]", FALSE, a.inner), "Subscript")
          [] OTHER -> a

\* atom: NAME | NUMBER | True | False | None | STRING+ | group | tuple | list
ParseAtom(t, i) ==
    LET Display(r, k) == IF r.ok THEN Node(r.pos, k, r.inner) ELSE Fail
        Group(e) ==
            IF ~e.ok THEN Fail
            ELSE IF At(t, e.pos) = ")" THEN [e EXCEPT !.pos = e.pos + 1]
            ELSE IF At(t, e.pos) = ","
                 THEN Display(ParseItems(t, e.pos + 1, ")", TRUE, e.inner), "Tuple")
            ELSE Fail
    IN  CASE At(t, i) = "NAME" -> Node(i + 1, "Name", {})
          [] At(t, i) \in {"NUM", "CONST"} -> Node(i + 1, "Constant", {})
          [] At(t, i) = "STR" ->
                IF At(t, i + 1) = "STR" THEN ParseAtom(t, i + 1)
                ELSE Node(i + 1, "Constant", {})
          [] At(t, i) = "(" ->
                IF At(t, i + 1) = ")" THEN Node(i + 2, "Tuple", {})
                ELSE Group(ParseExpr(t, i + 1))
          [] At(t, i) = "[" -> Display(ParseItems(t, i + 1, "]", TRUE, {}), "List")
          [] OTHER -> Fail

\* [expr (',' expr)* [',']] close ; pos is the index after the closing token,
\* inner collects the node classes of the items (acc: those seen so far)
ParseItems(t, i, close, emptyOk, acc) ==
    LET Item(e) ==
            IF ~e.ok THEN Fail
            ELSE IF At(t, e.pos) = close
                 THEN [ok |-> TRUE, pos |-> e.pos + 1, kind |-> "Items",
                       inner |-> acc \cup e.inner]
            ELSE IF At(t, e.pos) = ","
                 THEN ParseItems(t, e.pos + 1, close, TRUE, acc \cup e.inner)
            ELSE Fail
    IN  IF At(t, i) = close
        THEN IF emptyOk
             THEN [ok |-> TRUE, pos |-> i + 1, kind |-> "Items", inner |-> acc]
             ELSE Fail
        ELSE Item(ParseExpr(t, i))

\* star_expressions at statement level: expr (',' expr)* [','] up to the end
RECURSIVE ParseMore(_, _, _)
ParseMore(t, i, acc) ==
    LET Item(e) ==
            IF ~e.ok THEN Fail
            ELSE IF At(t, e.pos) = "END" THEN Node(e.pos, "Tuple", acc \cup e.inner)
            ELSE IF At(t, e.pos) = "," THEN ParseMore(t, e.pos + 1, acc \cup e.inner)
            ELSE Fail
    IN  IF At(t, i) = "END" THEN Node(i, "Tuple", acc) ELSE Item(ParseExpr(t, i))

ParseStatement(t) ==
    LET First(e) ==
            IF ~e.ok THEN Fail
            ELSE IF At(t, e.pos) = "END" THEN e
            ELSE IF At(t, e.pos) = "," THEN ParseMore(t, e.pos + 1, e.inner)
            ELSE Fail
    IN  First(ParseExpr(t, 1))

\* ast.parse(value_str): the tree of the first statement, a SyntaxError, or
\* an empty body
ast_parse(value_str) ==
    LET Parsed(t) ==
            IF t = << >> THEN [Fail EXCEPT !.kind = "EmptyBody"]
            ELSE IF Head(value_str) \in Whitespace THEN Fail
            ELSE IF \E k \in 1..Len(t) : t[k] = "ERR" THEN Fail
            ELSE ParseStatement(t)
    IN  Parsed(Tokens(value_str))

\* type(ast.parse(value_str).body[0].__dict__["value"]); body[0] of an empty
\* body raises IndexError, which is_safe_value does not catch
ast_value_type(value_str) ==
    LET TypeOf(tree) == IF tree.kind = "EmptyBody" THEN "IndexError" ELSE tree.kind
    IN  TypeOf(ast_parse(value_str))

(***************************************************************************)
(* gemsrun/utils/safestrfunc.py                                            *)
(***************************************************************************)
\* re.sub(r"^ *\w+ *= *", "", param.strip())
get_param(param) ==
    LET p == Strip(param)
        a == RunLen(p, {" "})
        w == RunLen(Drop(p, a), WordChars)
        b == RunLen(Drop(p, a + w), {" "})
        q == Drop(p, a + w + b)
    IN  IF w >= 1 /\ q # << >> /\ Head(q) = "="
        THEN Drop(q, 1 + RunLen(Tail(q), {" "}))
        ELSE p

\* re.sub(r"[\[\]\(\)\{\}]", "", seq_str.strip())
remove_seq_boundaries(seq_str) ==
    SelectSeq(Strip(seq_str), LAMBDA c : c \notin SeqBoundaries)

\* re.split(r" *, *", s)
RECURSIVE re_split_commas(_)
re_split_commas(s) ==
    LET c == Find(s, <<",">>, 1) IN
    IF c = 0 THEN <<s>>
    ELSE LET before == Take(s, c - 1)
             spaces == RunLen(Reverse(before), {" "})
             after == Drop(s, c)
         IN  <<Take(before, Len(before) - spaces)>>
                 \o re_split_commas(Drop(after, RunLen(after, {" "})))

\* is_safe_value(value_str): "True", "False", or the exception that escapes it
RECURSIVE is_safe_value(_), all_safe(_)
is_safe_value(value_str) ==
    LET Judge(ast_value_type_) ==
            CASE ast_value_type_ = "SyntaxError" -> "False"
              [] ast_value_type_ = "IndexError" -> "IndexError"
              [] ast_value_type_ = "Constant" -> "True"
              [] ast_value_type_ \in {"List", "Tuple"} ->
                    all_safe(re_split_commas(remove_seq_boundaries(value_str)))
              [] OTHER -> "False"
    IN  IF Strip(value_str) = << >> THEN "True"
        ELSE Judge(ast_value_type(value_str))

\* all(is_safe_value(item) for item in _seq): stops at the first item that
\* is not safe, and an exception raised by an item passes through
all_safe(items) ==
    IF items = << >> THEN "True"
    ELSE LET Rest(r) == IF r = "True" THEN all_safe(Tail(items)) ELSE r
         IN  Rest(is_safe_value(Head(items)))

LEFT == <<DQ, "(", "L", "E", "F", "T", ")", " ">>

RIGHT == <<" ", "(", "R", "I", "G", "H", "T", ")", DQ>>

\* _replace_brackets_outside_quotes(s, left_repl, right_repl); q1, q2 are
\* in_single_quote and in_double_quote
RECURSIVE replace_brackets(_, _, _, _, _)
replace_brackets(s, left_repl, right_repl, q1, q2) ==
    IF s = << >> THEN << >>
    ELSE LET ch == Head(s) IN
    CASE ch = "\\" /\ Len(s) >= 2 ->
            <<ch, s[2]>> \o replace_brackets(Drop(s, 2), left_repl, right_repl, q1, q2)
      [] ch = DQ /\ ~q1 ->
            <<ch>> \o replace_brackets(Tail(s), left_repl, right_repl, q1, ~q2)
      [] ch = "'" /\ ~q2 ->
            <<ch>> \o replace_brackets(Tail(s), left_repl, right_repl, ~q1, q2)
      [] ch = "[" /\ ~q1 /\ ~q2 ->
            left_repl \o replace_brackets(Tail(s), left_repl, right_repl, q1, q2)
      [] ch = "]" /\ ~q1 /\ ~q2 ->
            right_repl \o replace_brackets(Tail(s), left_repl, right_repl, q1, q2)
      [] OTHER ->
            <<ch>> \o replace_brackets(Tail(s), left_repl, right_repl, q1, q2)

_replace_brackets_outside_quotes(s, left_repl, right_repl) ==
    replace_brackets(s, left_repl, right_repl, FALSE, FALSE)

\* split_pattern.split(params) for the pattern  "[^"]*"(*SKIP)(*FAIL)|,\s*  :
\* a complete double-quoted stretch is stepped over, a comma with the white
\* space after it ends a piece; start is where the current piece begins
RECURSIVE split_scan(_, _, _)
split_scan(s, i, start) ==
    IF i > Len(s) THEN <<SubSeq(s, start, Len(s))>>
    ELSE IF s[i] = DQ /\ Find(s, <<DQ>>, i + 1) # 0
         THEN split_scan(s, Find(s, <<DQ>>, i + 1) + 1, start)
    ELSE IF s[i] = ","
         THEN LET next == i + 1 + RunLen(Drop(s, i), Whitespace) IN
              <<SubSeq(s, start, i - 1)>> \o split_scan(s, next, next)
    ELSE split_scan(s, i + 1, start)

\* a split that leaves the empty pieces out
split_pattern_split_filled(params) ==
    SelectSeq(split_scan(params, 1, 1), LAMBDA piece : piece # << >>)

split_pattern_split(params) == split_scan(params, 1, 1)

\* func_pattern.fullmatch(prepped) for  (\w+)\s*\((.*?)\)$  : [ok, fn, params]
func_pattern_fullmatch(prepped) ==
    LET w == RunLen(prepped, WordChars)
        sp == RunLen(Drop(prepped, w), Whitespace)
        open == w + sp + 1
    IN  IF /\ w >= 1
           /\ open < Len(prepped)
           /\ prepped[open] = "("
           /\ prepped[Len(prepped)] = ")"
        THEN [ok |-> TRUE, fn |-> Take(prepped, w),
              params |-> SubSeq(prepped, open + 1, Len(prepped) - 1)]
        ELSE [ok |-> FALSE, fn |-> << >>, params |-> << >>]

\* func_str_parts(cmd): [ok, fn, param_list]; ok = FALSE stands for ValueError
func_str_parts(cmd) ==
    LET Restored(param_list) ==
            [k \in 1..Len(param_list) |->
                Replace(Replace(param_list[k], LEFT, <<"[">>), RIGHT, <<"]">>)]
        Parts(func) ==
            IF ~func.ok THEN [ok |-> FALSE, fn |-> << >>, param_list |-> << >>]
            ELSE [ok |-> TRUE, fn |-> func.fn,
                  param_list |-> Restored(split_pattern_split(func.params))]
        Matched(prepped) == Parts(func_pattern_fullmatch(prepped))
    IN  Matched(_replace_brackets_outside_quotes(Strip(cmd), LEFT, RIGHT))

(***************************************************************************)
(* gemsrun/gui/viewpanel.py: the API vocabulary, each name as its text.    *)
(* name_X is the text "X" of a name the dispatcher below resolves.         *)
(***************************************************************************)
name_VarExists ==
    <<"V", "a", "r", "E", "x", "i", "s", "t", "s">>

name_VarMissing ==
    <<"V", "a", "r", "M", "i", "s", "s", "i", "n", "g">>

name_SetVariable ==
    <<"S", "e", "t", "V", "a", "r", "i", "a", "b", "l", "e">>

name_DelVariable ==
    <<"D", "e", "l", "V", "a", "r", "i", "a", "b", "l", "e">>

name_ShowObject ==
    <<"S", "h", "o", "w", "O", "b", "j", "e", "c", "t">>

name_HideObject ==
    <<"H", "i", "d", "e", "O", "b", "j", "e", "c", "t">>

name_AllowTake ==
    <<"A", "l", "l", "o", "w", "T", "a", "k", "e">>

name_DisallowTake ==
    <<"D", "i", "s", "a", "l", "l", "o", "w", "T", "a", "k", "e">>

name_PortalTo ==
    <<"P", "o", "r", "t", "a", "l", "T", "o">>

name_Quit ==
    <<"Q", "u", "i", "t">>

name_ViewTimePassed ==
    <<"V", "i", "e", "w", "T", "i", "m", "e", "P", "a", "s", "s", "e", "d">>

name_TotalTimePassed ==
    <<"T", "o", "t", "a", "l", "T", "i", "m", "e", "P", "a", "s", "s", "e",
      "d">>

\* the names of the other handlers the dispatcher below resolves
api_name ==
    [VarValueIs |-> <<"V", "a", "r", "V", "a", "l", "u", "e", "I", "s">>,
     VarValueIsNot |-> <<"V", "a", "r", "V", "a", "l", "u", "e", "I", "s", "N", "o", "t">>,
     VarIncrease |-> <<"V", "a", "r", "I", "n", "c", "r", "e", "a", "s", "e">>,
     VarDecrease |-> <<"V", "a", "r", "D", "e", "c", "r", "e", "a", "s", "e">>,
     InputDialog |-> <<"I", "n", "p", "u", "t", "D", "i", "a", "l", "o", "g">>,
     ClearKeyBuffer |-> <<"C", "l", "e", "a", "r", "K", "e", "y", "B", "u", "f", "f", "e", "r">>,
     HidePockets |-> <<"H", "i", "d", "e", "P", "o", "c", "k", "e", "t", "s">>,
     ShowPockets |-> <<"S", "h", "o", "w", "P", "o", "c", "k", "e", "t", "s">>]

VALID_CONDITIONS ==
    {\* VarValueIs
     <<"V", "a", "r", "V", "a", "l", "u", "e", "I", "s">>,
     \* VarValueIsNot
     <<"V", "a", "r", "V", "a", "l", "u", "e", "I", "s", "N", "o", "t">>,
     name_VarExists,
     name_VarMissing,
     \* VarCountEq
     <<"V", "a", "r", "C", "o", "u", "n", "t", "E", "q">>,
     \* VarCountGtEq
     <<"V", "a", "r", "C", "o", "u", "n", "t", "G", "t", "E", "q">>,
     \* VarCountLtEq
     <<"V", "a", "r", "C", "o", "u", "n", "t", "L", "t", "E", "q">>,
     \* KeyBufferContains
     <<"K", "e", "y", "B", "u", "f", "f", "e", "r", "C", "o", "n", "t", "a",
       "i", "n", "s">>,
     \* KeyBufferContainsIgnoreCase
     <<"K", "e", "y", "B", "u", "f", "f", "e", "r", "C", "o", "n", "t", "a",
       "i", "n", "s", "I", "g", "n", "o", "r", "e", "C", "a", "s", "e">>,
     \* KeyBufferLacks
     <<"K", "e", "y", "B", "u", "f", "f", "e", "r", "L", "a", "c", "k", "s">>,
     \* HasViewTimePassed
     <<"H", "a", "s", "V", "i", "e", "w", "T", "i", "m", "e", "P", "a", "s",
       "s", "e", "d">>,
     \* HasTotalTimePassed
     <<"H", "a", "s", "T", "o", "t", "a", "l", "T", "i", "m", "e", "P", "a",
       "s", "s", "e", "d">>}

VALID_TRIGGERS ==
    {name_ViewTimePassed,
     name_TotalTimePassed}

VALID_ACTIONS ==
    {name_SetVariable,
     name_DelVariable,
     \* VarIncrease
     <<"V", "a", "r", "I", "n", "c", "r", "e", "a", "s", "e">>,
     \* VarDecrease
     <<"V", "a", "r", "D", "e", "c", "r", "e", "a", "s", "e">>,
     \* ClearKeyBuffer
     <<"C", "l", "e", "a", "r", "K", "e", "y", "B", "u", "f", "f", "e", "r">>,
     \* TextBox
     <<"T", "e", "x", "t", "B", "o", "x">>,
     name_ShowObject,
     name_HideObject,
     name_PortalTo,
     \* ShowImage
     <<"S", "h", "o", "w", "I", "m", "a", "g", "e">>,
     \* ShowImageWithin
     <<"S", "h", "o", "w", "I", "m", "a", "g", "e", "W", "i", "t", "h", "i",
       "n">>,
     \* PlaySound
     <<"P", "l", "a", "y", "S", "o", "u", "n", "d">>,
     \* StopSound
     <<"S", "t", "o", "p", "S", "o", "u", "n", "d">>,
     \* StopAllSounds
     <<"S", "t", "o", "p", "A", "l", "l", "S", "o", "u", "n", "d", "s">>,
     \* PlayBackgroundMusic
     <<"P", "l", "a", "y", "B", "a", "c", "k", "g", "r", "o", "u", "n", "d",
       "M", "u", "s", "i", "c">>,
     \* StopBackgroundMusic
     <<"S", "t", "o", "p", "B", "a", "c", "k", "g", "r", "o", "u", "n", "d",
       "M", "u", "s", "i", "c">>,
     \* PlayVideo
     <<"P", "l", "a", "y", "V", "i", "d", "e", "o">>,
     \* PlayVideoWithin
     <<"P", "l", "a", "y", "V", "i", "d", "e", "o", "W", "i", "t", "h", "i",
       "n">>,
     \* StopVideo
     <<"S", "t", "o", "p", "V", "i", "d", "e", "o">>,
     \* StopAllVideos
     <<"S", "t", "o", "p", "A", "l", "l", "V", "i", "d", "e", "o", "s">>,
     name_AllowTake,
     name_DisallowTake,
     \* TextDialog
     <<"T", "e", "x", "t", "D", "i", "a", "l", "o", "g">>,
     \* InputDialog
     <<"I", "n", "p", "u", "t", "D", "i", "a", "l", "o", "g">>,
     \* SayText
     <<"S", "a", "y", "T", "e", "x", "t">>,
     \* ShowURL
     <<"S", "h", "o", "w", "U", "R", "L">>,
     name_Quit,
     \* HideMouse
     <<"H", "i", "d", "e", "M", "o", "u", "s", "e">>,
     \* ShowMouse
     <<"S", "h", "o", "w", "M", "o", "u", "s", "e">>,
     \* HidePockets
     <<"H", "i", "d", "e", "P", "o", "c", "k", "e", "t", "s">>,
     \* ShowPockets
     <<"S", "h", "o", "w", "P", "o", "c", "k", "e", "t", "s">>,
     \* NavRight
     <<"N", "a", "v", "R", "i", "g", "h", "t">>,
     \* NavLeft
     <<"N", "a", "v", "L", "e", "f", "t">>,
     \* NavTop
     <<"N", "a", "v", "T", "o", "p">>,
     \* NavBottom
     <<"N", "a", "v", "B", "o", "t", "t", "o", "m">>,
     \* TextBoxHTML
     <<"T", "e", "x", "t", "B", "o", "x", "H", "T", "M", "L">>,
     \* RunProgram
     <<"R", "u", "n", "P", "r", "o", "g", "r", "a", "m">>,
     \* ChangeViewImages
     <<"C", "h", "a", "n", "g", "e", "V", "i", "e", "w", "I", "m", "a", "g",
       "e", "s">>}

(***************************************************************************)
(* The rule texts of the environment                                       *)
(***************************************************************************)
\* SetVariable("s", "1")
act_SetS ==
    <<"S", "e", "t", "V", "a", "r", "i", "a", "b", "l", "e", "(", "\"", "s",
      "\"", ",", " ", "\"", "1", "\"", ")">>

\* VarExists("s")
cond_ExistsS ==
    <<"V", "a", "r", "E", "x", "i", "s", "t", "s", "(", "\"", "s", "\"", ")">>

\* DelVariable("s")
act_DelS ==
    <<"D", "e", "l", "V", "a", "r", "i", "a", "b", "l", "e", "(", "\"", "s",
      "\"", ")">>

\* HideObject(1)
act_Hide1 ==
    <<"H", "i", "d", "e", "O", "b", "j", "e", "c", "t", "(", "1", ")">>

\* ShowObject(1)
act_Show1 ==
    <<"S", "h", "o", "w", "O", "b", "j", "e", "c", "t", "(", "1", ")">>

\* DisallowTake(1)
act_Disallow1 ==
    <<"D", "i", "s", "a", "l", "l", "o", "w", "T", "a", "k", "e", "(", "1",
      ")">>

\* AllowTake(1)
act_Allow1 ==
    <<"A", "l", "l", "o", "w", "T", "a", "k", "e", "(", "1", ")">>

\* PortalTo(2)
act_Portal2 ==
    <<"P", "o", "r", "t", "a", "l", "T", "o", "(", "2", ")">>

\* Quit()
act_Quit ==
    <<"Q", "u", "i", "t", "(", ")">>

\* HideObject(2)
act_Hide2 ==
    <<"H", "i", "d", "e", "O", "b", "j", "e", "c", "t", "(", "2", ")">>

\* ViewTimePassed(1)
trig_View1 ==
    <<"V", "i", "e", "w", "T", "i", "m", "e", "P", "a", "s", "s", "e", "d",
      "(", "1", ")">>

\* TotalTimePassed(1)
trig_Total1 ==
    <<"T", "o", "t", "a", "l", "T", "i", "m", "e", "P", "a", "s", "s", "e",
      "d", "(", "1", ")">>

\* Foo(1)
bad_Unknown ==
    <<"F", "o", "o", "(", "1", ")">>

\* Foo(x)
bad_UnknownUnsafe ==
    <<"F", "o", "o", "(", "x", ")">>

\* VarExists("s"
bad_Malformed ==
    <<"V", "a", "r", "E", "x", "i", "s", "t", "s", "(", "\"", "s", "\"">>

\* VarExists(x)
bad_UnsafeCond ==
    <<"V", "a", "r", "E", "x", "i", "s", "t", "s", "(", "x", ")">>

\* VarExists(x, #)
bad_UnsafeThenEmptyBody ==
    <<"V", "a", "r", "E", "x", "i", "s", "t", "s", "(", "x", ",", " ", "#",
      ")">>

\* SetVariable("s", x)
bad_UnsafeAct ==
    <<"S", "e", "t", "V", "a", "r", "i", "a", "b", "l", "e", "(", "\"", "s",
      "\"", ",", " ", "x", ")">>

\* VarMissing("s")
cond_MissingS ==
    <<"V", "a", "r", "M", "i", "s", "s", "i", "n", "g", "(", "\"", "s", "\"",
      ")">>

\* PortalTo(4)
act_Portal4 ==
    <<"P", "o", "r", "t", "a", "l", "T", "o", "(", "4", ")">>

\* VarIncrease("s")
act_IncS ==
    <<"V", "a", "r", "I", "n", "c", "r", "e", "a", "s", "e", "(", "\"", "s", "\"", ")">>

\* PortalTo(9)
act_Portal9 ==
    <<"P", "o", "r", "t", "a", "l", "T", "o", "(", "9", ")">>

\* PortalTo(2, "v")
act_Portal2v ==
    <<"P", "o", "r", "t", "a", "l", "T", "o", "(", "2", ",", " ", "\"", "v",
      "\"", ")">>

\* the conditions and actions of the rules that work on the variable s
VarRuleTexts ==
    [conditions |->
        {<< >>,
         \* VarValueIs("s", "1")
         <<"V", "a", "r", "V", "a", "l", "u", "e", "I", "s", "(", "\"", "s",
           "\"", ",", " ", "\"", "1", "\"", ")">>,
         \* VarValueIsNot("s", "1")
         <<"V", "a", "r", "V", "a", "l", "u", "e", "I", "s", "N", "o", "t",
           "(", "\"", "s", "\"", ",", " ", "\"", "1", "\"", ")">>,
         \* VarValueIs("s", 2)
         <<"V", "a", "r", "V", "a", "l", "u", "e", "I", "s", "(", "\"", "s",
           "\"", ",", " ", "2", ")">>,
         \* VarValueIsNot("s", 2)
         <<"V", "a", "r", "V", "a", "l", "u", "e", "I", "s", "N", "o", "t",
           "(", "\"", "s", "\"", ",", " ", "2", ")">>},
     actions |->
        {
         \* SetVariable("s", "2.0")
         <<"S", "e", "t", "V", "a", "r", "i", "a", "b", "l", "e", "(", "\"",
           "s", "\"", ",", " ", "\"", "2", ".", "0", "\"", ")">>,
         \* SetVariable("s", "2.5")
         <<"S", "e", "t", "V", "a", "r", "i", "a", "b", "l", "e", "(", "\"",
           "s", "\"", ",", " ", "\"", "2", ".", "5", "\"", ")">>,
         \* SetVariable("s", "a")
         <<"S", "e", "t", "V", "a", "r", "i", "a", "b", "l", "e", "(", "\"",
           "s", "\"", ",", " ", "\"", "a", "\"", ")">>,
         \* SetVariable("s", 1)
         <<"S", "e", "t", "V", "a", "r", "i", "a", "b", "l", "e", "(", "\"",
           "s", "\"", ",", " ", "1", ")">>,
         \* DelVariable("s")
         <<"D", "e", "l", "V", "a", "r", "i", "a", "b", "l", "e", "(", "\"",
           "s", "\"", ")">>,
         \* VarIncrease("s")
         <<"V", "a", "r", "I", "n", "c", "r", "e", "a", "s", "e", "(", "\"",
           "s", "\"", ")">>,
         \* VarDecrease("s")
         <<"V", "a", "r", "D", "e", "c", "r", "e", "a", "s", "e", "(", "\"",
           "s", "\"", ")">>,
         \* InputDialog("?", "s")
         <<"I", "n", "p", "u", "t", "D", "i", "a", "l", "o", "g", "(", "\"",
           "?", "\"", ",", " ", "\"", "s", "\"", ")">>}]

\* further Trigger, Condition and Action texts of rules
rule_text ==
    [
     \* PortalTo(1)
     Portal1 |-> <<"P", "o", "r", "t", "a", "l", "T", "o", "(", "1", ")">>,
     \* ShowObject(9)
     Show9 |-> <<"S", "h", "o", "w", "O", "b", "j", "e", "c", "t", "(", "9",
                 ")">>,
     \* HideObject(9)
     Hide9 |-> <<"H", "i", "d", "e", "O", "b", "j", "e", "c", "t", "(", "9",
                 ")">>,
     \* AllowTake(9)
     Allow9 |-> <<"A", "l", "l", "o", "w", "T", "a", "k", "e", "(", "9", ")">>,
     \* DisallowTake(9)
     Disallow9 |-> <<"D", "i", "s", "a", "l", "l", "o", "w", "T", "a", "k",
                     "e", "(", "9", ")">>,
     \* SetVariable("off", "1")
     Off |-> <<"S", "e", "t", "V", "a", "r", "i", "a", "b", "l", "e", "(",
               "\"", "o", "f", "f", "\"", ",", " ", "\"", "1", "\"", ")">>,
     \* HideObject(3)
     Hide3 |-> <<"H", "i", "d", "e", "O", "b", "j", "e", "c", "t", "(", "3",
                 ")">>,
     \* MouseClick()
     MouseClick |-> <<"M", "o", "u", "s", "e", "C", "l", "i", "c", "k", "(",
                      ")">>,
     \* DroppedOn(4)
     DroppedOn4 |-> <<"D", "r", "o", "p", "p", "e", "d", "O", "n", "(", "4",
                      ")">>,
     \* NavLeft()
     NavLeft |-> <<"N", "a", "v", "L", "e", "f", "t", "(", ")">>,
     \* ViewTimePassed(0)
     View0 |-> <<"V", "i", "e", "w", "T", "i", "m", "e", "P", "a", "s", "s",
                 "e", "d", "(", "0", ")">>,
     \* ViewTimePassed(soon)
     ViewSoon |-> <<"V", "i", "e", "w", "T", "i", "m", "e", "P", "a", "s",
                    "s", "e", "d", "(", "s", "o", "o", "n", ")">>,
     \* TotalTimePassed(0)
     Total0 |-> <<"T", "o", "t", "a", "l", "T", "i", "m", "e", "P", "a", "s",
                  "s", "e", "d", "(", "0", ")">>,
     \* Sometime(1)
     Sometime |-> <<"S", "o", "m", "e", "t", "i", "m", "e", "(", "1", ")">>,
     \* ClearKeyBuffer()
     ClearKeyBuffer |-> <<"C", "l", "e", "a", "r", "K", "e", "y", "B", "u",
                          "f", "f", "e", "r", "(", ")">>,
     \* HidePockets()
     HidePockets |-> <<"H", "i", "d", "e", "P", "o", "c", "k", "e", "t", "s",
                       "(", ")">>,
     \* ShowPockets()
     ShowPockets |-> <<"S", "h", "o", "w", "P", "o", "c", "k", "e", "t", "s",
                       "(", ")">>]

(***************************************************************************)
(* Values handed to the handlers.  A value is [type, text]: the Python     *)
(* type of a literal and its text (the decimal digits of an int, the       *)
(* characters of a str).                                                   *)
(***************************************************************************)
IntVal(digits) == [type |-> "int", text |-> digits]

StrVal(chars) == [type |-> "str", text |-> chars]

DigitValue ==
    [d \in Digits |->
        CASE d = "0" -> 0 [] d = "1" -> 1 [] d = "2" -> 2 [] d = "3" -> 3
          [] d = "4" -> 4 [] d = "5" -> 5 [] d = "6" -> 6 [] d = "7" -> 7
          [] d = "8" -> 8 [] d = "9" -> 9]

\* the number written by a text of decimal digits, with an optional sign
RECURSIVE int_of(_)
int_of(digits) ==
    IF digits = << >> THEN 0
    ELSE IF Head(digits) = "-" THEN 0 - int_of(Tail(digits))
    ELSE 10 * int_of(Take(digits, Len(digits) - 1)) + DigitValue[digits[Len(digits)]]

IsDigits(s) == s # << >> /\ \A k \in 1..Len(s) : s[k] \in Digits

\* the value Python's eval gives to an argument text that passed is_safe_value
eval_arg(value) ==
    LET Literal(t, v) ==
            CASE t = <<"NUM">> -> IntVal(v)
              [] t = <<"STR">> /\ ~StartsWith(v, <<DQ, DQ, DQ>>) ->
                    StrVal(SubSeq(v, 2, Len(v) - 1))
              [] t = <<"CONST">> -> [type |-> "const", text |-> v]
              [] OTHER -> [type |-> "other", text |-> v]
    IN  Literal(Tokens(value), Strip(value))

\* float(text) as start_timers applies it to a raw trigger argument:
\* [ok, secs]; ok = FALSE stands for ValueError
float_of(text) ==
    IF IsDigits(Strip(text)) THEN [ok |-> TRUE, secs |-> int_of(Strip(text))]
    ELSE [ok |-> FALSE, secs |-> 0]

\* float(value) for a stored or given value: [ok, kind, tenths]; ok = FALSE
\* stands for ValueError or TypeError.  The texts a session of this
\* environment holds are decimal numbers with at most one digit after the
\* point, "inf", "nan" and words; a finite number is kept in tenths.
py_float(value) ==
    LET finite(n) == [ok |-> TRUE, kind |-> "finite", tenths |-> n]
        invalid == [ok |-> FALSE, kind |-> "none", tenths |-> 0]
        Signed(neg, n) == finite(IF neg THEN 0 - n ELSE n)
        Unsigned(neg, t, dot) ==
            IF dot = 0 THEN (IF IsDigits(t) THEN Signed(neg, 10 * int_of(t)) ELSE invalid)
            ELSE IF /\ IsDigits(Take(t, dot - 1) \o Drop(t, dot))
                    /\ Len(t) - dot <= 1
                 THEN Signed(neg, 10 * int_of(Take(t, dot - 1)) + int_of(Drop(t, dot)))
            ELSE invalid
        Number(neg, t) == Unsigned(neg, t, Find(t, <<".">>, 1))
        Text(t) ==
            IF t = <<"i", "n", "f">> THEN [ok |-> TRUE, kind |-> "inf", tenths |-> 0]
            ELSE IF t = <<"n", "a", "n">> THEN [ok |-> TRUE, kind |-> "nan", tenths |-> 0]
            ELSE IF t # << >> /\ Head(t) = "-" THEN Number(TRUE, Tail(t))
            ELSE Number(FALSE, t)
    IN  CASE value.type = "str" -> Text(Strip(value.text))
          [] value.type = "int" -> finite(10 * int_of(value.text))
          [] value.type = "const" /\ value.text = <<"T", "r", "u", "e">> -> finite(10)
          [] value.type = "const" /\ value.text = <<"F", "a", "l", "s", "e">> -> finite(0)
          [] OTHER -> invalid

(***************************************************************************)
(* The environment the session runs: four views, an object in the first   *)
(* two, two objects in the third and none in the fourth, one pocket, one    *)
(* media file, the rules of each view and the global rules.                *)
(***************************************************************************)
ViewIds == {1, 2, 3, 4}

Startview == 1

ObjIds == {1, 2, 3, 4}

\* Views[v].Objects: the view each object is declared in
ObjView == [o \in ObjIds |-> IF o = 4 THEN 3 ELSE o]

\* options.PlayMedia, and the files found under options.MediaPath
options == [PlayMedia |-> TRUE, MediaFiles |-> {<<"v">>}]

Pocketcount == 1

DigitText == <<"1", "2", "3", "4", "5", "6", "7", "8", "9">>

\* str(n) of an int
RECURSIVE str(_)
str(n) ==
    IF n < 0 THEN <<"-">> \o str(0 - n)
    ELSE IF n = 0 THEN <<"0">>
    ELSE IF n < 10 THEN <<DigitText[n]>>
    ELSE str(n \div 10) \o str(n % 10)

NoView == IntVal(<<"-", "1">>)

Rule(id, trigger, condition, action) ==
    [Id |-> id, Enabled |-> TRUE, Trigger |-> trigger,
     Condition |-> condition, Action |-> action]

\* f'KeyPress("{key_text}")'
KeyPressTrigger(key_text) ==
    <<"K", "e", "y", "P", "r", "e", "s", "s", "(", DQ, key_text, DQ, ")">>

\* Views["1"].Actions.values(), in the order of the environment file: the
\* rules of the keys, the rules key i fires one after the other, each with a
\* condition or an action the dispatcher refuses, a rule whose condition
\* makes the argument check raise, the view's timed rule, a rule that sets
\* a variable once, a portal to a view that does not exist, a portal with
\* a transition video, the rules key x fires, which name an object that
\* is in no view, and the rules key w fires, which portal to view 2, to a
\* view that does not exist and to view 1
View1Actions ==
    <<Rule(1, KeyPressTrigger("a"), << >>, act_SetS),
      Rule(2, KeyPressTrigger("c"), cond_ExistsS, act_DelS),
      Rule(3, KeyPressTrigger("d"), << >>, act_Hide1),
      Rule(4, KeyPressTrigger("e"), << >>, act_Show1),
      Rule(5, KeyPressTrigger("f"), << >>, act_Disallow1),
      Rule(6, KeyPressTrigger("g"), << >>, act_Allow1),
      Rule(7, KeyPressTrigger("p"), << >>, act_Portal2),
      Rule(8, KeyPressTrigger("q"), << >>, act_Quit),
      Rule(9, KeyPressTrigger("i"), bad_Unknown, act_SetS),
      Rule(10, KeyPressTrigger("i"), bad_UnknownUnsafe, act_SetS),
      Rule(11, KeyPressTrigger("i"), bad_Malformed, act_SetS),
      Rule(12, KeyPressTrigger("i"), bad_UnsafeCond, act_SetS),
      Rule(13, KeyPressTrigger("i"), << >>, bad_Unknown),
      Rule(14, KeyPressTrigger("i"), cond_ExistsS, bad_Unknown),
      Rule(15, KeyPressTrigger("i"), << >>, bad_UnsafeAct),
      Rule(16, KeyPressTrigger("i"), << >>, bad_Malformed),
      Rule(17, KeyPressTrigger("m"), bad_UnsafeThenEmptyBody, act_SetS),
      Rule(18, trig_View1, << >>, act_Hide1),
      Rule(19, KeyPressTrigger("b"), cond_MissingS, act_SetS),
      Rule(20, KeyPressTrigger("n"), << >>, act_Portal9),
      Rule(21, KeyPressTrigger("v"), << >>, act_Portal2v),
      Rule(22, KeyPressTrigger("x"), << >>, rule_text.Show9),
      Rule(23, KeyPressTrigger("x"), << >>, rule_text.Hide9),
      Rule(24, KeyPressTrigger("x"), << >>, rule_text.Allow9),
      Rule(25, KeyPressTrigger("x"), << >>, rule_text.Disallow9),
      Rule(26, KeyPressTrigger("w"), << >>, act_Portal2),
      Rule(27, KeyPressTrigger("w"), << >>, act_Portal9),
      Rule(28, KeyPressTrigger("w"), << >>, rule_text.Portal1)>>

\* Views["2"].Actions.values(): key p enters the view again, key r goes back
\* to view 1, key c clears the key buffer, keys h and s hide and show the
\* pockets
View2Actions ==
    <<Rule(1, KeyPressTrigger("p"), << >>, act_Portal2),
      Rule(2, KeyPressTrigger("r"), << >>, rule_text.Portal1),
      Rule(3, KeyPressTrigger("c"), << >>, rule_text.ClearKeyBuffer),
      Rule(4, KeyPressTrigger("h"), << >>, rule_text.HidePockets),
      Rule(5, KeyPressTrigger("s"), << >>, rule_text.ShowPockets)>>

\* a rule the environment file has switched off
Disabled(rule) == [rule EXCEPT !.Enabled = FALSE]

\* Views["3"].Actions.values(): a view no rule portals to.  Each event has a
\* rule that is on and a rule that is off; of the timed rules one is due at
\* once, one is off, three have an action, a trigger or a condition the
\* vocabulary lacks, one has a time that is no number, and one follows it
View3Actions ==
    <<Rule(1, KeyPressTrigger("k"), << >>, act_SetS),
      Disabled(Rule(2, KeyPressTrigger("k"), << >>, rule_text.Off)),
      Rule(3, rule_text.NavLeft, << >>, act_DelS),
      Disabled(Rule(4, rule_text.NavLeft, << >>, rule_text.Off)),
      Rule(5, rule_text.View0, << >>, act_SetS),
      Disabled(Rule(6, trig_View1, << >>, rule_text.Off)),
      Rule(7, trig_View1, << >>, bad_Unknown),
      Rule(8, rule_text.Sometime, << >>, act_SetS),
      Rule(9, trig_View1, bad_Unknown, act_SetS),
      Rule(10, rule_text.ViewSoon, << >>, act_SetS),
      Rule(11, trig_View1, << >>, rule_text.Hide3)>>

\* Views["4"].Actions.values(): a view without objects that has a
\* TotalTimePassed rule of its own, which counts in the variable s, and a
\* key that enters the view again
View4Actions ==
    <<Rule(1, rule_text.Total0, << >>, act_IncS),
      Rule(2, KeyPressTrigger("p"), << >>, act_Portal4)>>

ViewActions ==
    [v \in ViewIds |-> CASE v = 1 -> View1Actions
                         [] v = 4 -> View4Actions
                         [] v = 2 -> View2Actions
                         [] v = 3 -> View3Actions]

\* Views[v].Objects[o].Actions.values(): object 3 answers a click and the
\* drop of object 4, and a click on object 2 portals to view 1 and to view 2
ObjectActions ==
    [o \in ObjIds |->
        IF o = 3
        THEN <<Rule(1, rule_text.MouseClick, << >>, act_DelS),
               Disabled(Rule(2, rule_text.MouseClick, << >>, rule_text.Off)),
               Rule(3, rule_text.DroppedOn4, << >>, act_SetS),
               Disabled(Rule(4, rule_text.DroppedOn4, << >>, rule_text.Off))>>
        ELSE IF o = 2
        THEN <<Rule(1, rule_text.MouseClick, << >>, rule_text.Portal1),
               Rule(2, rule_text.MouseClick, << >>, act_Portal2)>>
        ELSE << >>]

\* Global.GlobalActions.values() at session start; rule i has key str(i)
InitialGlobalActions == <<Rule(1, trig_Total1, << >>, act_Hide2)>>

\* the global rules of a session that starts in view 3: the second is off
GlobalActionsWithDisabled ==
    <<Rule(1, trig_Total1, << >>, act_Hide2),
      Disabled(Rule(2, rule_text.Total0, << >>, rule_text.Off))>>

Keys == {"a", "c", "d", "e", "f", "g", "i", "m", "p", "q"}

Range(f) == {f[k] : k \in DOMAIN f}

(***************************************************************************)
(* Handlers.  st is the state the handler runs on: the environment         *)
(* database (Variables, Visible, Takeable, GlobalActions), the main window *)
(* (current_view_id, next_view_id, pocket_objects, running), the view      *)
(* panels built so far and the pending single-shot timers.  p is the panel *)
(* (self).  A handler yields [st, ret, raised].                            *)
(***************************************************************************)
Returns(st, value) == [st |-> st, ret |-> value, raised |-> FALSE]

\* an exception leaves the handler
Raises(st) == [st |-> st, ret |-> "raised", raised |-> TRUE]

Bool(b) == IF b THEN "True" ELSE "False"

\* log.info(dict(Kind='Action', Type=..., Result=...)): the record is added
\* to the log of the step
Logged(st, type, result) == [st EXCEPT !.log = Append(@, <<type, result>>)]

EmptyPocket == [view_id |-> -1, Id |-> -1]

\* ViewPanel.__init__ for view_id at time now: the panel is appended; its
\* start_timers call is deferred by a zero-delay single shot.  object_pics
\* tells for every object of the view whether its widget is shown; a widget
\* is built with setVisible(object.Visible)
NewPanel(view_id, now_, visible) ==
    [view_id |-> view_id, closed |-> FALSE, timers_pending |-> TRUE,
     view_start_time |-> now_, key_buffer |-> << >>,
     object_pics |-> [o \in {x \in ObjIds : ObjView[x] = view_id} |-> visible[o]]]

\* load_next_view that reads the environment file again
load_next_view_reloads(st) ==
    [st EXCEPT !.Visible = [o \in ObjIds |-> TRUE],
               !.Takeable = [o \in ObjIds |-> TRUE],
               !.panels = Append(@, NewPanel(int_of(st.current_view_id.text), st.now,
                                             [o \in ObjIds |-> TRUE]))]

\* options.Pocketcount as the environment file gives it: no such option, an
\* int, or a value of another type
NoOption == [type |-> "missing", n |-> 0]

IntOption(n) == [type |-> "int", n |-> n]

StrOption(n) == [type |-> "str", n |-> n]

\* ViewPanel.create_pockets.  Reading an option the Munch does not hold
\* raises AttributeError, which the handler of KeyError and AssertionError
\* lets pass; range(n) of a negative n is empty
create_pockets(option) ==
    IF option.type = "missing"
    THEN [raised |-> TRUE, Pocketcount |-> option, pocket_objects |-> << >>]
    ELSE IF option.type = "int"
    THEN [raised |-> FALSE, Pocketcount |-> option,
          pocket_objects |-> [i \in 0..(option.n - 1) |-> EmptyPocket]]
    ELSE [raised |-> FALSE, Pocketcount |-> IntOption(4),
          pocket_objects |-> [i \in 0..3 |-> EmptyPocket]]

\* ViewPanel.reload_pockets: every pocket widget gets its image and the new
\* panel as parent; object_info keeps its name, view_id and Id
reload_pockets(pockets) == pockets

\* the pockets step of ViewPanel.__init__; a raise leaves the construction
\* of the panel
panel_pockets(st, loaded, made) ==
    IF DOMAIN st.pocket_objects # {}
    THEN [loaded EXCEPT !.pocket_objects = reload_pockets(@)]
    ELSE IF made.raised THEN st
    ELSE [loaded EXCEPT !.Pocketcount = made.Pocketcount,
                        !.pocket_objects = made.pocket_objects]

\* MainWin.load_next_view
load_next_view(st) ==
    panel_pockets(st,
        [st EXCEPT !.panels = Append(@, NewPanel(int_of(st.current_view_id.text), st.now, st.Visible))],
        create_pockets(st.Pocketcount))

\* shutdown_view that leaves the open panel open
shutdown_view_keeps_open(st) ==
    LET s1 == Logged(st, "debug", "Shutting Down Existing View")
    IN  IF s1.next_view_id.type # "int" THEN Raises(s1)
        ELSE IF int_of(s1.next_view_id.text) >= 0
             THEN Returns(load_next_view([s1 EXCEPT !.current_view_id = s1.next_view_id,
                                                    !.next_view_id = NoView]), "None")
        ELSE Returns([s1 EXCEPT !.running = FALSE], "None")

\* MainWin.shutdown_view, with ViewPanel.closeEvent of the open panel
shutdown_view(st) ==
    LET n == Len(st.panels)
        s0 == Logged(st, "debug", "Shutting Down Existing View")
        s1 == IF n > 0 THEN [s0 EXCEPT !.panels[n].closed = TRUE] ELSE s0
    IN  IF s1.next_view_id.type # "int" THEN Raises(s1)
        ELSE IF int_of(s1.next_view_id.text) >= 0
             THEN Returns(load_next_view([s1 EXCEPT !.current_view_id = s1.next_view_id,
                                                    !.next_view_id = NoView]), "None")
        ELSE Returns([s1 EXCEPT !.running = FALSE], "None")

\* ViewPanel._smart_compare
_smart_compare(val1, val2) ==
    LET Compared(f1, f2) ==
            IF f1.ok /\ f2.ok
            THEN /\ f1.kind # "nan"
                 /\ f1.kind = f2.kind
                 /\ f1.tenths = f2.tenths
            ELSE val1.text = val2.text
    IN  Compared(py_float(val1), py_float(val2))

VarValueIs(st, p, args) ==
    Returns(st, Bool(/\ args[1] \in DOMAIN st.Variables
                     /\ _smart_compare(st.Variables[args[1]], args[2])))

\* VarValueIsNot that asks for the variable to exist
VarValueIsNot_when_present(st, p, args) ==
    Returns(st, Bool(/\ args[1] \in DOMAIN st.Variables
                     /\ ~_smart_compare(st.Variables[args[1]], args[2])))

VarValueIsNot(st, p, args) ==
    Returns(st, Bool(\/ args[1] \notin DOMAIN st.Variables
                     \/ ~_smart_compare(st.Variables[args[1]], args[2])))

VarExists(st, p, args) == Returns(st, Bool(args[1] \in DOMAIN st.Variables))

\* VarMissing that says yes whatever Variables holds
VarMissing_always(st, p, args) == Returns(st, "True")

VarMissing(st, p, args) == Returns(st, Bool(args[1] \notin DOMAIN st.Variables))

SetVariable(st, p, args) ==
    Returns([Logged(st, "SetVariable", "Valid") EXCEPT !.Variables =
                [n \in DOMAIN @ \cup {args[1]} |-> IF n = args[1] THEN args[2] ELSE @[n]]],
            "None")

\* the KeyError handler, the one place that logs an invalid result, is never
\* entered: the deletion is guarded by the membership test
DelVariable(st, p, args) ==
    Returns([Logged(st, "DelVariable", "Valid") EXCEPT !.Variables =
                [n \in DOMAIN @ \ {args[1]} |-> @[n]]],
            "None")

\* the body VarIncrease and VarDecrease share: the variable moves by delta,
\* or is set to seed when it is missing or float() rejects its value
VarChange(st, args, type, delta, seed) ==
    LET variable == args[1]
        s0 == Logged(st, type, "Valid")
        Stored(s1, text) ==
            [s1 EXCEPT !.Variables =
                [n \in DOMAIN @ \cup {variable} |->
                    IF n = variable THEN StrVal(text) ELSE @[n]]]
        \* str(numeric_value + delta) for a float that is not whole
        str_float(tenths) ==
            (IF tenths < 0 THEN <<"-">> ELSE << >>)
                \o str((IF tenths < 0 THEN 0 - tenths ELSE tenths) \div 10)
                \o <<".">>
                \o str((IF tenths < 0 THEN 0 - tenths ELSE tenths) % 10)
        \* int(numeric_value), truncating towards zero
        int(tenths) == IF tenths < 0 THEN 0 - ((0 - tenths) \div 10) ELSE tenths \div 10
        Changed(numeric_value) ==
            CASE ~numeric_value.ok -> Stored(s0, seed)
              [] numeric_value.kind = "nan" -> Stored(s0, seed)
              [] numeric_value.kind = "inf" ->
                    Logged(s0, type, "Invalid|cannot convert float infinity to integer")
              [] numeric_value.tenths % 10 = 0 ->
                    Stored(s0, str(int(numeric_value.tenths) + delta))
              [] OTHER -> Stored(s0, str_float(numeric_value.tenths + 10 * delta))
    IN  Returns(IF variable \in DOMAIN st.Variables
                THEN Changed(py_float(st.Variables[variable]))
                ELSE Stored(s0, seed),
                "None")

\* VarIncrease that seeds a variable it cannot read with "0"
VarIncrease_seeds_zero(st, p, args) == VarChange(st, args, "VarIncrease", 1, <<"0">>)

VarIncrease(st, p, args) == VarChange(st, args, "VarIncrease", 1, <<"1">>)

\* VarDecrease that adds
VarDecrease_adds(st, p, args) == VarChange(st, args, "VarDecrease", 1, <<"0">>)

VarDecrease(st, p, args) == VarChange(st, args, "VarDecrease", 0 - 1, <<"0">>)

\* InputDialog(prompt, variable, ...): st.answer is what the user does with
\* the dialog, [accepted, text]
InputDialog(st, p, args) ==
    LET s0 == Logged(st, "InputDialog", "Valid") IN
    IF st.answer.accepted
    THEN SetVariable(s0, p, <<args[2], StrVal(st.answer.text)>>)
    ELSE Returns(s0, "None")

\* _object.Id == object_id for the objects of every view
MatchingObjects(object_id) ==
    {o \in ObjIds : object_id.type = "int" /\ int_of(object_id.text) = o}

\* the else branch of ShowObject and HideObject: the widget of the panel's
\* own view is shown or hidden; object_pics is keyed by the int id
set_object_pic(st, p, type, object_id, shown) ==
    IF object_id.text \notin {str(o) : o \in DOMAIN st.panels[p].object_pics}
    THEN Returns(st, "None")
    ELSE IF object_id.type # "int" THEN Raises(st)
    ELSE Returns(Logged([st EXCEPT !.panels[p].object_pics[int_of(object_id.text)] = shown],
                        type, "Valid"),
                 "None")

ShowObject(st, p, args) ==
    set_object_pic([st EXCEPT !.Visible =
                       [o \in ObjIds |-> IF o \in MatchingObjects(args[1]) THEN TRUE ELSE @[o]]],
                   p, "ShowObject", args[1], TRUE)

\* ViewPanel.handle_pocket_right_click
handle_pocket_right_click(st, p, pocket_id) ==
    LET info == st.pocket_objects[pocket_id] IN
    IF info.view_id = -1 \/ info.Id = -1 THEN st
    ELSE [st EXCEPT !.Visible[info.Id] = TRUE,
                    !.pocket_objects[pocket_id] = EmptyPocket,
                    !.panels[p].object_pics =
                        IF info.view_id = st.panels[p].view_id
                        THEN [@ EXCEPT ![info.Id] = TRUE] ELSE @]

\* the loop of HideObject that puts a pocketed object back first
RECURSIVE release_pocketed(_, _, _, _)
release_pocketed(st, p, object_id, pocket_id) ==
    IF pocket_id \notin DOMAIN st.pocket_objects THEN st
    ELSE LET held == object_id.type = "int"
                     /\ int_of(object_id.text) = st.pocket_objects[pocket_id].Id
             s1 == IF held THEN handle_pocket_right_click(st, p, pocket_id) ELSE st
         IN  release_pocketed(s1, p, object_id, pocket_id + 1)

\* a HideObject that leaves the pockets alone
HideObject_keeps_pocket(st, p, args) ==
    set_object_pic([st EXCEPT !.Visible =
                       [o \in ObjIds |-> IF o \in MatchingObjects(args[1]) THEN FALSE ELSE @[o]]],
                   p, "HideObject", args[1], FALSE)

HideObject(st, p, args) ==
    LET s1 == release_pocketed(st, p, args[1], 0) IN
    set_object_pic([s1 EXCEPT !.Visible =
                       [o \in ObjIds |-> IF o \in MatchingObjects(args[1]) THEN FALSE ELSE @[o]]],
                   p, "HideObject", args[1], FALSE)

AllowTake(st, p, args) ==
    Returns([Logged(st, "AllowTake", "Valid") EXCEPT !.Takeable =
                [o \in ObjIds |-> IF o \in MatchingObjects(args[1]) THEN TRUE ELSE @[o]]],
            "None")

DisallowTake(st, p, args) ==
    Returns([Logged(st, "DisallowTake", "Valid") EXCEPT !.Takeable =
                [o \in ObjIds |-> IF o \in MatchingObjects(args[1]) THEN FALSE ELSE @[o]]],
            "None")

\* PortalTo that asks for no view to exist
PortalTo_any_view(st, p, args) ==
    shutdown_view([Logged(st, "PortalTo", "Valid") EXCEPT !.next_view_id = args[1]])

\* PortalTo that leaves the portal to the end of a transition video it found
PortalTo_awaits_video(st, p, args) ==
    IF args[1].text \notin {str(v) : v \in ViewIds}
    THEN Returns(Logged(st, "PortalTo", "Invalid|ViewDoesNotExist"), "None")
    ELSE IF Len(args) >= 2 /\ args[2].text \in options.MediaFiles
    THEN Returns(Logged(st, "PortalTo", "Valid|WithTransition"), "None")
    ELSE shutdown_view([Logged(st, "PortalTo", "Valid") EXCEPT !.next_view_id = args[1]])

\* ViewPanel.PortalTo.  A transition video that is found is announced, but
\* VideoObject and AnimationObject take no on_finish argument: building
\* either raises TypeError, which is caught, and do_portal runs at once as
\* it does without a video.
PortalTo(st, p, args) ==
    LET view_id == args[1]
        vid_file == IF Len(args) >= 2 THEN args[2] ELSE StrVal(<< >>)
        do_portal(s1) == shutdown_view([s1 EXCEPT !.next_view_id = view_id])
        falsy == \/ vid_file.text = << >>
                 \/ vid_file.type = "int" /\ int_of(vid_file.text) = 0
                 \/ vid_file.type = "const" /\ vid_file.text # <<"T", "r", "u", "e">>
        found == vid_file.text \in options.MediaFiles /\ options.PlayMedia
    IN  IF view_id.text \notin {str(v) : v \in ViewIds}
        THEN Returns(Logged(st, "PortalTo", "Invalid|ViewDoesNotExist"), "None")
        ELSE IF falsy THEN do_portal(Logged(st, "PortalTo", "Valid"))
        ELSE IF vid_file.type # "str" THEN Raises(st)
        ELSE do_portal(Logged(IF found THEN Logged(st, "PortalTo", "Valid|WithTransition")
                              ELSE st,
                              "PortalTo", "Valid"))

ClearKeyBuffer(st, p, args) ==
    Returns([Logged(st, "ClearKeyBuffer", "Valid") EXCEPT !.panels[p].key_buffer = << >>],
            "None")

\* the pocket widgets are hidden or shown, and nothing else is done
HidePockets(st, p, args) == Returns(st, "None")

ShowPockets(st, p, args) == Returns(st, "None")

Quit(st, p, args) ==
    shutdown_view([Logged(st, "Quit", "Valid") EXCEPT !.next_view_id = NoView])

(***************************************************************************)
(* The texts of the environment are fixed, so what func_str_parts,         *)
(* is_safe_value and eval make of them is tabulated once.                  *)
(***************************************************************************)
AllRules ==
    UNION {Range(ViewActions[v]) : v \in ViewIds}
        \cup UNION {Range(ObjectActions[o]) : o \in ObjIds}
        \cup Range(InitialGlobalActions) \cup Range(GlobalActionsWithDisabled)

RuleTexts ==
    ({r.Condition : r \in AllRules} \cup {r.Action : r \in AllRules}
        \cup {r.Trigger : r \in AllRules}
        \cup VarRuleTexts.conditions \cup VarRuleTexts.actions) \ {<< >>}

\* func_str_parts(cmd=expression) for every text of the environment
parts_of == [expression \in RuleTexts |-> func_str_parts(expression)] @@ << >>

\* get_param(item) for the raw arguments of every text
ArgTexts ==
    UNION {{get_param(parts_of[e].param_list[k]) : k \in 1..Len(parts_of[e].param_list)} :
              e \in {x \in RuleTexts : parts_of[x].ok}}

\* is_safe_value(val) for every argument of the environment
safe_value == [val \in ArgTexts |-> is_safe_value(val)] @@ << >>

\* the value eval gives every argument of the environment
arg_value == [val \in ArgTexts |-> eval_arg(val)] @@ << >>

ok_calls == VALID_CONDITIONS \cup VALID_ACTIONS \cup VALID_TRIGGERS

\* the least and greatest number of arguments each modelled handler binds
Arity(fn) ==
    CASE fn \in {name_VarExists, name_VarMissing, name_DelVariable,
                 name_AllowTake, name_DisallowTake} -> <<1, 1>>
      [] fn \in {name_SetVariable, api_name.VarValueIs, api_name.VarValueIsNot} -> <<2, 2>>
      [] fn \in {api_name.VarIncrease, api_name.VarDecrease} -> <<1, 1>>
      [] fn = api_name.InputDialog -> <<2, 4>>
      [] fn \in {name_ShowObject, name_HideObject, name_PortalTo} -> <<1, 2>>
      [] fn \in {name_Quit, api_name.ClearKeyBuffer, api_name.HidePockets,
                 api_name.ShowPockets} -> <<0, 0>>
      [] OTHER -> <<0, 9>>

\* the call eval makes of the method fn names, with the arguments bound (a
\* TypeError when their number does not fit).  Handlers that only reach the
\* rendering and media collaborators leave st as it is.
bound_method(st, p, fn, args, known, arity) ==
    IF known /\ (Len(args) < arity[1] \/ Len(args) > arity[2])
    THEN [st |-> st, ret |-> "TypeError", raised |-> TRUE]
    ELSE CASE fn = name_VarExists -> VarExists(st, p, args)
           [] fn = name_VarMissing -> VarMissing(st, p, args)
           [] fn = api_name.VarValueIs -> VarValueIs(st, p, args)
           [] fn = api_name.VarValueIsNot -> VarValueIsNot(st, p, args)
           [] fn = api_name.VarIncrease -> VarIncrease(st, p, args)
           [] fn = api_name.VarDecrease -> VarDecrease(st, p, args)
           [] fn = api_name.InputDialog -> InputDialog(st, p, args)
           [] fn = name_SetVariable -> SetVariable(st, p, args)
           [] fn = name_DelVariable -> DelVariable(st, p, args)
           [] fn = name_ShowObject -> ShowObject(st, p, args)
           [] fn = name_HideObject -> HideObject(st, p, args)
           [] fn = name_AllowTake -> AllowTake(st, p, args)
           [] fn = name_DisallowTake -> DisallowTake(st, p, args)
           [] fn = name_PortalTo -> PortalTo(st, p, args)
           [] fn = name_Quit -> Quit(st, p, args)
           [] fn = api_name.ClearKeyBuffer -> ClearKeyBuffer(st, p, args)
           [] fn = api_name.HidePockets -> HidePockets(st, p, args)
           [] fn = api_name.ShowPockets -> ShowPockets(st, p, args)
           [] ~known -> [st |-> st, ret |-> "AttributeError", raised |-> TRUE]
           [] OTHER -> Returns(st, "None")

\* eval(f"self.{expression}") once the call was found safe: the arguments
\* are evaluated and the method the name resolves to is called
eval_call(st, p, fn, param_values) ==
    LET Bound(given) == [k \in 1..Len(given) |-> arg_value[given[k]]]
    IN  bound_method(st, p, fn, Bound(SelectSeq(param_values, LAMBDA v : Strip(v) # << >>)),
                     fn \in ok_calls, Arity(fn))

(***************************************************************************)
(* The dispatcher: valid_api_call, safe_eval, do_action                    *)
(***************************************************************************)
\* ViewPanel.valid_api_call: <<func, params>>, or << >> for the empty tuple
valid_api_call(expression) ==
    LET Known(call) ==
            IF ~call.ok THEN << >>
            ELSE IF call.fn \in ok_calls THEN <<call.fn, call.param_list>>
            ELSE << >>
    IN  IF expression = << >> THEN << >> ELSE Known(parts_of[expression])

\* ok_params = [is_safe_value(val) for val in param_values], then
\* all(ok_params): every value is checked, and an exception of any check
\* leaves safe_eval
ok_params(param_values) ==
    LET All(checks) ==
            IF \E k \in 1..Len(checks) : checks[k] \notin {"True", "False"} THEN "raised"
            ELSE IF \A k \in 1..Len(checks) : checks[k] = "True" THEN "True"
            ELSE "False"
    IN  All([k \in 1..Len(param_values) |-> safe_value[param_values[k]]])

\* safe_eval once the call is parsed and its name accepted: the values are
\* checked, and a call whose values are all safe is dispatched
validated_call(st, p, fn, param_values) ==
    LET Dispatched(r) ==
            [st |-> r.st, ret |-> r.ret, raised |-> r.raised,
             invoked |-> IF r.ret = "TypeError" THEN << >> ELSE <<fn>>]
        Checked(ok, r) ==
            CASE ok = "raised" ->
                    [st |-> st, ret |-> "raised", raised |-> TRUE, invoked |-> << >>]
              [] ok = "True" -> Dispatched(r)
              [] OTHER -> [st |-> st, ret |-> "None", raised |-> FALSE, invoked |-> << >>]
    IN  Checked(ok_params(param_values), eval_call(st, p, fn, param_values))

\* safe_eval without the check of the name against the vocabulary
safe_eval_any_name(st, p, expression) ==
    LET refused == [st |-> st, ret |-> "None", raised |-> FALSE, invoked |-> << >>]
        Values(param_list) == [k \in 1..Len(param_list) |-> get_param(param_list[k])]
        Parsed(call, validated) == IF ~call.ok THEN refused ELSE validated
    IN  Parsed(parts_of[expression],
               validated_call(st, p, parts_of[expression].fn,
                              Values(parts_of[expression].param_list)))

\* ViewPanel.safe_eval: [st, ret, raised, invoked]; invoked lists the handler
\* the call was dispatched to, if any
safe_eval(st, p, expression) ==
    LET refused == [st |-> st, ret |-> "None", raised |-> FALSE, invoked |-> << >>]
        Values(param_list) == [k \in 1..Len(param_list) |-> get_param(param_list[k])]
        Parsed(call, validated) ==
            IF ~call.ok THEN refused
            ELSE IF call.fn \notin ok_calls THEN refused
            ELSE validated
    IN  Parsed(parts_of[expression],
               validated_call(st, p, parts_of[expression].fn,
                              Values(parts_of[expression].param_list)))

\* the state the rules share
Shared(st) ==
    [Variables |-> st.Variables, Visible |-> st.Visible, Takeable |-> st.Takeable,
     pocket_objects |-> st.pocket_objects, current_view_id |-> st.current_view_id]

\* do_action from the result c of its condition on, attempting the action
\* whatever the condition gave
do_action_whatever_from_condition(st, p, condition, action, c) ==
    LET rec1 == [panel |-> p, panel_closed |-> st.panels[p].closed,
                 condition |-> condition, action |-> action,
                 cond_ret |-> c.ret, act_ret |-> "skipped",
                 calls |-> [k \in 1..Len(c.invoked) |-> <<"condition", c.invoked[k]>>],
                 raised |-> "no", before |-> Shared(st), mid |-> Shared(c.st),
                 after |-> Shared(c.st), log |-> Drop(c.st.log, Len(st.log))]
        Acted(a) ==
            [st |-> a.st,
             rec |-> [rec1 EXCEPT
                        !.act_ret = a.ret,
                        !.calls = @ \o [k \in 1..Len(a.invoked) |-> <<"action", a.invoked[k]>>],
                        !.after = Shared(a.st),
                        !.log = Drop(a.st.log, Len(st.log)),
                        !.raised = IF a.raised THEN "action" ELSE "no"]]
        Conditioned(a) ==
            IF c.raised THEN [st |-> c.st, rec |-> [rec1 EXCEPT !.raised = "condition"]]
            ELSE Acted(a)
    IN  Conditioned(safe_eval(c.st, p, action))

\* do_action that attempts the action whatever the condition gave
do_action_whatever(st, p, condition, action) ==
    do_action_whatever_from_condition(st, p, condition, action,
                 IF condition = << >>
                 THEN [st |-> st, ret |-> "skipped", raised |-> FALSE, invoked |-> << >>]
                 ELSE safe_eval(st, p, condition))

\* do_action from the result c of its condition on: the action is attempted
\* when there is no condition or the condition gave True
do_action_from_condition(st, p, condition, action, c) ==
    LET rec1 == [panel |-> p, panel_closed |-> st.panels[p].closed,
                 condition |-> condition, action |-> action,
                 cond_ret |-> c.ret, act_ret |-> "skipped",
                 calls |-> [k \in 1..Len(c.invoked) |-> <<"condition", c.invoked[k]>>],
                 raised |-> "no", before |-> Shared(st), mid |-> Shared(c.st),
                 after |-> Shared(c.st), log |-> Drop(c.st.log, Len(st.log))]
        Acted(a) ==
            [st |-> a.st,
             rec |-> [rec1 EXCEPT
                        !.act_ret = a.ret,
                        !.calls = @ \o [k \in 1..Len(a.invoked) |-> <<"action", a.invoked[k]>>],
                        !.after = Shared(a.st),
                        !.log = Drop(a.st.log, Len(st.log)),
                        !.raised = IF a.raised THEN "action" ELSE "no"]]
        Conditioned(a) ==
            IF c.raised THEN [st |-> c.st, rec |-> [rec1 EXCEPT !.raised = "condition"]]
            ELSE IF condition = << >> \/ c.ret = "True" THEN Acted(a)
            ELSE [st |-> c.st, rec |-> rec1]
    IN  Conditioned(safe_eval(c.st, p, action))

\* ViewPanel.do_action: [st, rec]; rec records what the call did: the
\* handlers invoked, in order, with the part of the rule each belongs to, the
\* part an exception escaped from, the shared state before the call, after
\* the condition and after the action, and the records the call logged
do_action(st, p, condition, action) ==
    do_action_from_condition(st, p, condition, action,
                     IF condition = << >>
                     THEN [st |-> st, ret |-> "skipped", raised |-> FALSE, invoked |-> << >>]
                     ELSE safe_eval(st, p, condition))

\* for action in ...: self.do_action(action.Condition, action.Action) over
\* the selected rules; an exception ends the loop.  [st, recs]
RECURSIVE fire_rules(_, _, _, _)
fire_rules(st, p, rules, recs) ==
    IF rules = << >> THEN [st |-> st, recs |-> recs]
    ELSE LET Fired(r) ==
                 IF r.rec.raised # "no" THEN [st |-> r.st, recs |-> Append(recs, r.rec)]
                 ELSE fire_rules(r.st, p, Tail(rules), Append(recs, r.rec))
         IN  Fired(do_action(st, p, Head(rules).Condition, Head(rules).Action))

\* string.digits + string.ascii_letters + string.punctuation +
\* string.whitespace, the characters \x60, \x0b and \x0c written by their
\* escapes
allowed ==
    Digits \cup Letters
        \cup {"!", DQ, "#", "$", "%", "&", "'", "(", ")", "*", "+", ",", "-", ".", "/", ":",
              ";", "<", "=", ">", "?", "@", "[", "\\", "]", "^", "_", "\\x60", "{", "|", "}", "~"}
        \cup {" ", "\t", "\n", "\r", "\\x0b", "\\x0c"}

\* if key_text in allowed: self.key_buffer += key_text, for a key_text of at
\* most one character; the empty text is in every str
key_buffer_add(st, p, key_text) ==
    IF key_text = "" \/ key_text \notin allowed THEN st
    ELSE [st EXCEPT !.panels[p].key_buffer = Append(@, key_text)]

\* handle_key_press that does not look at Enabled
handle_key_press_any_rule(st, p, key_text) ==
    LET matching == SelectSeq(ViewActions[st.panels[p].view_id],
                        LAMBDA action : action.Trigger = KeyPressTrigger(key_text))
    IN  fire_rules(key_buffer_add(st, p, key_text), p, matching, << >>)

\* handle_key_press that keeps no key buffer
handle_key_press_forgets(st, p, key_text) ==
    LET triggers_to_check == {KeyPressTrigger(key_text)}
        matching == SelectSeq(ViewActions[st.panels[p].view_id],
                        LAMBDA action : action.Enabled /\ action.Trigger \in triggers_to_check)
    IN  fire_rules(st, p, matching, << >>)

\* ViewPanel.handle_key_press for a key whose name is its text
handle_key_press(st, p, key_text) ==
    LET triggers_to_check == {KeyPressTrigger(key_text)}
        matching == SelectSeq(ViewActions[st.panels[p].view_id],
                        LAMBDA action : action.Enabled /\ action.Trigger \in triggers_to_check)
    IN  fire_rules(key_buffer_add(st, p, key_text), p, matching, << >>)

\* ViewImageObject.mousePressEvent with the left button, on the widget of
\* object object_id
object_mousePressEvent(st, p, object_id) ==
    LET matching == SelectSeq(ObjectActions[object_id],
                        LAMBDA action : action.Enabled /\ action.Trigger = rule_text.MouseClick)
    IN  fire_rules(st, p, matching, << >>)

\* ViewPanel.handle_object_drop for two objects of the panel's view
handle_object_drop(st, p, source_id, target_id) ==
    LET trigger == <<"D", "r", "o", "p", "p", "e", "d", "O", "n", "(">>
                       \o str(source_id) \o <<")">>
        matching == SelectSeq(ObjectActions[target_id],
                        LAMBDA action : /\ action.Enabled
                                        /\ Replace(action.Trigger, <<" ">>, << >>) = trigger)
    IN  IF source_id = target_id THEN [st |-> st, recs |-> << >>]
        ELSE fire_rules(st, p, matching, << >>)

\* NavImageObject.mousePressEvent with the left button; nav_actions are the
\* rules create_nav_pics gave the zone
nav_mousePressEvent(st, p, nav_type) ==
    LET nav_actions == SelectSeq(ViewActions[st.panels[p].view_id],
                                 LAMBDA action : StartsWith(action.Trigger, nav_type))
        matching == SelectSeq(nav_actions, LAMBDA action : action.Enabled)
    IN  fire_rules(st, p, matching, << >>)

(***************************************************************************)
(* The timer scheduler                                                     *)
(***************************************************************************)
\* ViewPanel.make_action_timer: QTimer.singleShot(int(when_secs * 1000), self,
\* partial(self.do_action, ...)).  rule names the rule the timer was made
\* for, and made_open tells whether the panel was open when it was made.
make_action_timer(st, p, condition, action, when_secs, rule) ==
    [st EXCEPT !.timers = @ \cup {[panel |-> p, condition |-> condition,
                                   action |-> action, due |-> st.now + when_secs,
                                   rule |-> rule, made_open |-> ~st.panels[p].closed]}]

\* the pass of the loop of start_timers that leaves a scheduled global rule
\* enabled
start_timer_for_stays_enabled(st, p, i) ==
    LET nglobal == Len(st.GlobalActions)
        rule == IF i <= nglobal THEN <<"global", i>> ELSE <<"view", i - nglobal>>
        same == [st |-> st, raised |-> FALSE]
        Scheduled(action, passed_so_far_secs, trigger_time_secs) ==
            make_action_timer(st, p, action.Condition, action.Action,
                              IF passed_so_far_secs >= trigger_time_secs THEN 0
                              ELSE trigger_time_secs - passed_so_far_secs,
                              rule)
        Total(action, s1) ==
            [st |-> s1, raised |-> FALSE]
        Timed(action, func, trigger_time_secs) ==
            IF func = name_TotalTimePassed
            THEN IF ~trigger_time_secs.ok THEN [st |-> st, raised |-> TRUE]
                 ELSE Total(action, Scheduled(action, st.now - st.task_start_time,
                                              trigger_time_secs.secs))
            ELSE IF func = name_ViewTimePassed
            THEN IF ~trigger_time_secs.ok THEN [st |-> st, raised |-> TRUE]
                 ELSE [st |-> Scheduled(action, st.now - st.panels[p].view_start_time,
                                        trigger_time_secs.secs),
                       raised |-> FALSE]
            ELSE same
        Valid(action, condition_info, trigger_info, action_info) ==
            IF ~(/\ trigger_info # << >>
                 /\ action_info # << >>
                 /\ (condition_info # << >> \/ action.Condition = << >>)) THEN same
            ELSE Timed(action, trigger_info[1], float_of(trigger_info[2][1]))
        Pass(action) ==
            IF ~action.Enabled THEN same
            ELSE Valid(action, valid_api_call(action.Condition),
                       valid_api_call(action.Trigger), valid_api_call(action.Action))
    IN  Pass(IF i <= nglobal THEN st.GlobalActions[i]
             ELSE ViewActions[st.panels[p].view_id][i - nglobal])

\* the pass of the loop of start_timers that runs a rule that is due at once
\* instead of making its timer
start_timer_for_runs_due_rule(st, p, i) ==
    LET nglobal == Len(st.GlobalActions)
        rule == IF i <= nglobal THEN <<"global", i>> ELSE <<"view", i - nglobal>>
        same == [st |-> st, raised |-> FALSE]
        Scheduled(action, passed_so_far_secs, trigger_time_secs) ==
            IF passed_so_far_secs >= trigger_time_secs
            THEN do_action(st, p, action.Condition, action.Action).st
            ELSE make_action_timer(st, p, action.Condition, action.Action,
                                   trigger_time_secs - passed_so_far_secs, rule)
        Total(action, s1) ==
            IF action \in Range(st.GlobalActions)
            THEN IF action.Id \in DOMAIN st.GlobalActions
                 THEN [st |-> [s1 EXCEPT !.GlobalActions[action.Id].Enabled = FALSE],
                       raised |-> FALSE]
                 ELSE [st |-> s1, raised |-> TRUE]
            ELSE [st |-> s1, raised |-> FALSE]
        Timed(action, func, trigger_time_secs) ==
            IF func = name_TotalTimePassed
            THEN IF ~trigger_time_secs.ok THEN [st |-> st, raised |-> TRUE]
                 ELSE Total(action, Scheduled(action, st.now - st.task_start_time,
                                              trigger_time_secs.secs))
            ELSE IF func = name_ViewTimePassed
            THEN IF ~trigger_time_secs.ok THEN [st |-> st, raised |-> TRUE]
                 ELSE [st |-> Scheduled(action, st.now - st.panels[p].view_start_time,
                                        trigger_time_secs.secs),
                       raised |-> FALSE]
            ELSE same
        Valid(action, condition_info, trigger_info, action_info) ==
            IF ~(/\ trigger_info # << >>
                 /\ action_info # << >>
                 /\ (condition_info # << >> \/ action.Condition = << >>)) THEN same
            ELSE Timed(action, trigger_info[1], float_of(trigger_info[2][1]))
        Pass(action) ==
            IF ~action.Enabled THEN same
            ELSE Valid(action, valid_api_call(action.Condition),
                       valid_api_call(action.Trigger), valid_api_call(action.Action))
    IN  Pass(IF i <= nglobal THEN st.GlobalActions[i]
             ELSE ViewActions[st.panels[p].view_id][i - nglobal])

\* the pass of the loop of start_timers that schedules a TotalTimePassed
\* rule of a view only the first time the view is entered
start_timer_for_view_rule_once(st, p, i) ==
    LET nglobal == Len(st.GlobalActions)
        rule == IF i <= nglobal THEN <<"global", i>> ELSE <<"view", i - nglobal>>
        same == [st |-> st, raised |-> FALSE]
        Scheduled(action, passed_so_far_secs, trigger_time_secs) ==
            make_action_timer(st, p, action.Condition, action.Action,
                              IF passed_so_far_secs >= trigger_time_secs THEN 0
                              ELSE trigger_time_secs - passed_so_far_secs,
                              rule)
        Total(action, s1) ==
            IF action \in Range(st.GlobalActions)
            THEN IF action.Id \in DOMAIN st.GlobalActions
                 THEN [st |-> [s1 EXCEPT !.GlobalActions[action.Id].Enabled = FALSE],
                       raised |-> FALSE]
                 ELSE [st |-> s1, raised |-> TRUE]
            ELSE [st |-> s1, raised |-> FALSE]
        Timed(action, func, trigger_time_secs) ==
            IF func = name_TotalTimePassed
            THEN IF ~trigger_time_secs.ok THEN [st |-> st, raised |-> TRUE]
                 ELSE IF /\ i > nglobal
                         /\ \E q \in 1..(p - 1) : st.panels[q].view_id = st.panels[p].view_id
                 THEN same
                 ELSE Total(action, Scheduled(action, st.now - st.task_start_time,
                                              trigger_time_secs.secs))
            ELSE IF func = name_ViewTimePassed
            THEN IF ~trigger_time_secs.ok THEN [st |-> st, raised |-> TRUE]
                 ELSE [st |-> Scheduled(action, st.now - st.panels[p].view_start_time,
                                        trigger_time_secs.secs),
                       raised |-> FALSE]
            ELSE same
        Valid(action, condition_info, trigger_info, action_info) ==
            IF ~(/\ trigger_info # << >>
                 /\ action_info # << >>
                 /\ (condition_info # << >> \/ action.Condition = << >>)) THEN same
            ELSE Timed(action, trigger_info[1], float_of(trigger_info[2][1]))
        Pass(action) ==
            IF ~action.Enabled THEN same
            ELSE Valid(action, valid_api_call(action.Condition),
                       valid_api_call(action.Trigger), valid_api_call(action.Action))
    IN  Pass(IF i <= nglobal THEN st.GlobalActions[i]
             ELSE ViewActions[st.panels[p].view_id][i - nglobal])

\* one pass of the loop of start_timers, for the i-th rule of
\* chain(GlobalActions.values(), View.Actions.values()): [st, raised]
start_timer_for(st, p, i) ==
    LET nglobal == Len(st.GlobalActions)
        rule == IF i <= nglobal THEN <<"global", i>> ELSE <<"view", i - nglobal>>
        same == [st |-> st, raised |-> FALSE]
        Scheduled(action, passed_so_far_secs, trigger_time_secs) ==
            make_action_timer(st, p, action.Condition, action.Action,
                              IF passed_so_far_secs >= trigger_time_secs THEN 0
                              ELSE trigger_time_secs - passed_so_far_secs,
                              rule)
        Total(action, s1) ==
            IF action \in Range(st.GlobalActions)
            THEN IF action.Id \in DOMAIN st.GlobalActions
                 THEN [st |-> [s1 EXCEPT !.GlobalActions[action.Id].Enabled = FALSE],
                       raised |-> FALSE]
                 ELSE [st |-> s1, raised |-> TRUE]
            ELSE [st |-> s1, raised |-> FALSE]
        Timed(action, func, trigger_time_secs) ==
            IF func = name_TotalTimePassed
            THEN IF ~trigger_time_secs.ok THEN [st |-> st, raised |-> TRUE]
                 ELSE Total(action, Scheduled(action, st.now - st.task_start_time,
                                              trigger_time_secs.secs))
            ELSE IF func = name_ViewTimePassed
            THEN IF ~trigger_time_secs.ok THEN [st |-> st, raised |-> TRUE]
                 ELSE [st |-> Scheduled(action, st.now - st.panels[p].view_start_time,
                                        trigger_time_secs.secs),
                       raised |-> FALSE]
            ELSE same
        Valid(action, condition_info, trigger_info, action_info) ==
            IF ~(/\ trigger_info # << >>
                 /\ action_info # << >>
                 /\ (condition_info # << >> \/ action.Condition = << >>)) THEN same
            ELSE Timed(action, trigger_info[1], float_of(trigger_info[2][1]))
        Pass(action) ==
            IF ~action.Enabled THEN same
            ELSE Valid(action, valid_api_call(action.Condition),
                       valid_api_call(action.Trigger), valid_api_call(action.Action))
    IN  Pass(IF i <= nglobal THEN st.GlobalActions[i]
             ELSE ViewActions[st.panels[p].view_id][i - nglobal])

RECURSIVE start_timers_from(_, _, _)
start_timers_from(st, p, i) ==
    IF i > Len(st.GlobalActions) + Len(ViewActions[st.panels[p].view_id]) THEN st
    ELSE LET Passed(r) == IF r.raised THEN r.st ELSE start_timers_from(r.st, p, i + 1)
         IN  Passed(start_timer_for(st, p, i))

\* ViewPanel.start_timers
start_timers(st, p) == start_timers_from(st, p, 1)

(***************************************************************************)
(* Text interpolation: var_in_text                                         *)
(***************************************************************************)
\* dollar_pattern.finditer(thetext) from position i on: group(1) of every
\* match of  \$([A-Za-z_][A-Za-z0-9_]*)\$
RECURSIVE dollar_pattern_finditer(_, _)
dollar_pattern_finditer(thetext, i) ==
    IF i > Len(thetext) THEN << >>
    ELSE LET Matched(w) ==
                 IF /\ thetext[i] = "$"
                    /\ w >= 1
                    /\ thetext[i + 1] \notin Digits
                    /\ i + w + 1 <= Len(thetext)
                    /\ thetext[i + w + 1] = "$"
                 THEN <<SubSeq(thetext, i + 1, i + w)>>
                          \o dollar_pattern_finditer(thetext, i + w + 2)
                 ELSE dollar_pattern_finditer(thetext, i + 1)
         IN  Matched(RunLen(Drop(thetext, i), WordChars))

\* bracket_pattern.findall(newtext) from position i on: the second group of
\* every match of  (\[)([^\]]+)(\])
RECURSIVE bracket_pattern_findall(_, _)
bracket_pattern_findall(newtext, i) ==
    IF i > Len(newtext) THEN << >>
    ELSE LET Matched(close) ==
                 IF newtext[i] = "[" /\ close > i + 1
                 THEN <<SubSeq(newtext, i + 1, close - 1)>>
                          \o bracket_pattern_findall(newtext, close + 1)
                 ELSE bracket_pattern_findall(newtext, i + 1)
         IN  Matched(Find(newtext, <<"]">>, i + 1))

\* for ... : try: newtext = newtext.replace(full, self.db.Variables.get(varname,
\* 'Unknown')) except Exception: log.error(e), over the names found; replace
\* raises TypeError for a value that is no str
RECURSIVE replace_specifiers(_, _, _, _, _)
replace_specifiers(variables, newtext, names, left, right) ==
    IF names = << >> THEN newtext
    ELSE LET varname == StrVal(Head(names))
             Replaced(value) ==
                 IF value.type = "str"
                 THEN Replace(newtext, left \o Head(names) \o right, value.text)
                 ELSE newtext
         IN  replace_specifiers(variables,
                                Replaced(IF varname \in DOMAIN variables
                                         THEN variables[varname]
                                         ELSE StrVal(<<"U", "n", "k", "n", "o", "w", "n">>)),
                                Tail(names), left, right)

\* ViewPanel.var_in_text with db.Variables = variables
var_in_text(variables, thetext) ==
    LET Legacy(newtext) ==
            replace_specifiers(variables, newtext, bracket_pattern_findall(newtext, 1),
                               <<"[">>, <<"]">>)
    IN  Legacy(replace_specifiers(variables, thetext, dollar_pattern_finditer(thetext, 1),
                                  <<"$">>, <<"$">>))

(***************************************************************************)
(* audiocache.py: the cache of WAV files.  A path is its folder, its stem  *)
(* and its suffix.  The files of the cache folder all have the suffix      *)
(* .wav; the folder gives for the stem of each what was written into it:   *)
(* the source that was decoded, and whether the writing was completed      *)
(***************************************************************************)
lower_case == [c \in {"M", "P", "O", "G"} |->
                  CASE c = "M" -> "m" [] c = "P" -> "p" [] c = "O" -> "o" [] c = "G" -> "g"]

\* str.lower
lower(text) ==
    [k \in DOMAIN text |-> IF text[k] \in DOMAIN lower_case THEN lower_case[text[k]] ELSE text[k]]

COMPRESSED_FORMATS ==
    {<<".", "m", "p", "3">>, <<".", "o", "g", "g">>, <<".", "f", "l", "a", "c">>}

CACHE_FOLDER == "Cache"

is_compressed_audio(file_path) == lower(file_path.suffix) \in COMPRESSED_FORMATS

get_cached_wav_path(original) ==
    [folder |-> CACHE_FOLDER, stem |-> original.stem, suffix |-> <<".", "w", "a", "v">>]

\* convert_to_wav(source_path, dest_path) on the cache folder files: pygame
\* decodes the source and the WAV file is written, or the source cannot be
\* decoded, or the file is opened and writing it fails
convert_to_wav(files, source_path, dest_path, outcome) ==
    CASE outcome = "written" ->
             [ok |-> TRUE,
              files |-> (dest_path.stem :> [source |-> source_path, complete |-> TRUE]) @@ files]
      [] outcome = "undecodable" -> [ok |-> FALSE, files |-> files]
      [] outcome = "unwritable" ->
             [ok |-> FALSE,
              files |-> (dest_path.stem :> [source |-> source_path, complete |-> FALSE]) @@ files]

None == [none |-> TRUE, folder |-> "", stem |-> "", suffix |-> << >>]

PathOf(file_path) ==
    [none |-> FALSE, folder |-> file_path.folder, stem |-> file_path.stem,
     suffix |-> file_path.suffix]

ensure_cached(files, original, outcome) ==
    IF ~is_compressed_audio(original)
    THEN [files |-> files, result |-> PathOf(original)]
    ELSE IF get_cached_wav_path(original).stem \in DOMAIN files
    THEN [files |-> files, result |-> PathOf(get_cached_wav_path(original))]
    ELSE IF convert_to_wav(files, original, get_cached_wav_path(original), outcome).ok
    THEN [files |-> convert_to_wav(files, original, get_cached_wav_path(original), outcome).files,
          result |-> PathOf(get_cached_wav_path(original))]
    ELSE [files |-> convert_to_wav(files, original, get_cached_wav_path(original), outcome).files,
          result |-> PathOf(original)]

get_playback_path(files, original) ==
    IF ~is_compressed_audio(original) THEN PathOf(original)
    ELSE IF get_cached_wav_path(original).stem \in DOMAIN files
    THEN PathOf(get_cached_wav_path(original))
    ELSE PathOf(original)

(***************************************************************************)
(* ViewPanel.sleep: the synchronous wait.  A panel has one QEventLoop,     *)
(* sleep_event_loop.  A QEventLoop is inExec while a call of its exec()    *)
(* runs, and exit once quit() was called; a new one is not running         *)
(***************************************************************************)
QEventLoop == [inExec |-> FALSE, exit |-> TRUE]

isRunning(loop) == ~loop.exit

quit(loop) == [loop EXCEPT !.exit = TRUE]

\* QEventLoop.exec(): a loop that is in exec() already warns and returns -1
\* at once; otherwise the loop runs until quit() is called
exec(loop) ==
    IF loop.inExec THEN [entered |-> FALSE, loop |-> loop]
    ELSE [entered |-> TRUE, loop |-> [inExec |-> TRUE, exit |-> FALSE]]

\* QTimer.singleShot(msec, self, self.sleep_event_loop.quit): shots[d] is
\* the number of single shots that are due in d units of 500 ms
singleShot(shots, msec) == [shots EXCEPT ![msec] = @ + 1]

\* a sleep that waits in an event loop of its own
sleep_in_new_loop(loop, shots, msec) ==
    [loop |-> exec(QEventLoop).loop, shots |-> singleShot(shots, msec),
     entered |-> exec(QEventLoop).entered]

\* ViewPanel.sleep(msec) up to the point where exec() either returns at
\* once or starts to wait: [loop, shots, entered]
sleep(loop, shots, msec) ==
    [loop |-> exec(IF isRunning(loop) THEN quit(loop) ELSE loop).loop,
     shots |-> singleShot(shots, msec),
     entered |-> exec(IF isRunning(loop) THEN quit(loop) ELSE loop).entered]

\* ViewPanel.play_sound(asynchronous=False) from the return of its first
\* sleep on: when the sound has time_left and still plays it sleeps again.
\* calls are the calls of play_sound that wait in exec(), innermost last
play_sound_rest(calls, time_left, slept) ==
    [loop |-> slept.loop, shots |-> slept.shots,
     calls |-> IF slept.entered THEN Append(calls, [at |-> "rest", time_left |-> time_left])
               ELSE calls]

play_sound_from(loop, shots, calls, time_left) ==
    IF time_left > 0 THEN play_sound_rest(calls, time_left, sleep(loop, shots, time_left))
    ELSE [loop |-> loop, shots |-> shots, calls |-> calls]

\* ViewPanel.play_sound(asynchronous=False) from player.play() on
play_sound_first(calls, time_left, slept) ==
    IF slept.entered
    THEN [loop |-> slept.loop, shots |-> slept.shots,
          calls |-> Append(calls, [at |-> "start", time_left |-> time_left])]
    ELSE play_sound_from(slept.loop, slept.shots, calls, time_left)

play_sound(loop, shots, calls, time_left) ==
    play_sound_first(calls, time_left, sleep(loop, shots, 1))

\* exec() of the innermost waiting call returns, and play_sound goes on
exec_returns(loop, shots, calls) ==
    IF calls[Len(calls)].at = "start"
    THEN play_sound_from([loop EXCEPT !.inExec = FALSE], shots,
                         SubSeq(calls, 1, Len(calls) - 1), calls[Len(calls)].time_left)
    ELSE [loop |-> [loop EXCEPT !.inExec = FALSE], shots |-> shots,
          calls |-> SubSeq(calls, 1, Len(calls) - 1)]

(***************************************************************************)
(* Pocket gestures                                                         *)
(***************************************************************************)
\* ViewPanel.handle_pocket_drop
handle_pocket_drop(st, p, dropped_object_id, pocket_id) ==
    IF dropped_object_id \in ObjIds
       /\ ObjView[dropped_object_id] = st.panels[p].view_id
       /\ ~st.Takeable[dropped_object_id]
    THEN st
    ELSE IF dropped_object_id \in ObjIds /\ ObjView[dropped_object_id] = st.panels[p].view_id
         THEN [st EXCEPT !.Visible[dropped_object_id] = FALSE,
                         !.panels[p].object_pics[dropped_object_id] = FALSE]
         ELSE st

\* a dropEvent that does not look at what the pocket holds
dropEvent_replaces(st, p, source_object_id, pocket_id) ==
    IF source_object_id \in {st.pocket_objects[k].Id : k \in DOMAIN st.pocket_objects}
    THEN st
    ELSE handle_pocket_drop(
             [st EXCEPT !.pocket_objects[pocket_id] =
                            [view_id |-> ObjView[source_object_id], Id |-> source_object_id]],
             p, source_object_id, pocket_id)

\* ViewPocketObject.dropEvent for the object source_object_id, of a view or
\* of a pocket, dragged onto pocket pocket_id
dropEvent(st, p, source_object_id, pocket_id) ==
    IF st.pocket_objects[pocket_id].Id >= 0 THEN st
    ELSE IF source_object_id \in {st.pocket_objects[k].Id : k \in DOMAIN st.pocket_objects}
         THEN st
    ELSE handle_pocket_drop(
             [st EXCEPT !.pocket_objects[pocket_id] =
                            [view_id |-> ObjView[source_object_id], Id |-> source_object_id]],
             p, source_object_id, pocket_id)

(***************************************************************************)
(* Bounds                                                                  *)
(***************************************************************************)
\* longest argument text given to is_safe_value
MaxValLen == 5

\* longest parameter text given to func_str_parts
MaxParamLen == 5

\* longest whole call text given to func_str_parts
MaxCallLen == 4

\* largest magnitude of a number a variable holds
MaxCount == 3

\* seconds of session time observed
MaxTime == 1

\* view panels built in one session
MaxPanels == 2

\* view panels built in a session that goes back to a view it has left
MaxVisits == 3

\* longest parameter text that is split and joined again
MaxSplitLen == 5

\* longest delay of a single shot of sleep, in units of 500 ms
MaxDelay == 2

\* most single shots of sleep that are pending
MaxShots == 4

\* largest int the option Pocketcount is given
MaxPockets == 2

\* characters of a key buffer
MaxTyped == 2

\* most panels built in a session of portals
MaxPortalPanels == 6

\* pieces (plain characters and placeholders) of a message
MaxPieces == 3

\* executions of one global rule's action that are counted
MaxRan == 2

ValueChars == {"1", "x", DQ, ",", "[", "]", "(", ")", "-"}

ParamChars == {"1", ",", "(", ")", "[", "]", DQ, " "}

Strings(chars, n) == UNION {[1..k -> chars] : k \in 0..n}

(***************************************************************************)
(* State                                                                   *)
(***************************************************************************)
VARIABLES
    safe_input,       \* the text is_safe_value is applied to
    safe_output,      \* its result
    parts_input,      \* the text func_str_parts is applied to
    parts_output,     \* its result
    text_input,       \* db.Variables and the message var_in_text is applied to
    text_output,      \* its result
    cache_files,      \* the files of the cache folder
    cache_output,     \* the last call of the cache and what it returned
    sleep_event_loop, \* ViewPanel.sleep_event_loop of a panel
    sleep_shots,      \* the single shots that call sleep_event_loop.quit
    sleep_calls,      \* the calls of play_sound that wait in exec()
    sleep_trace,      \* what the last step of the wait was
    Variables,        \* db.Variables
    Visible,          \* Views[v].Objects[o].Visible
    Takeable,         \* Views[v].Objects[o].Takeable
    GlobalActions,    \* db.Global.GlobalActions
    options_Pocketcount, \* db.Global.Options.Pocketcount
    pocket_objects,   \* MainWin.pocket_objects[k].object_info
    current_view_id,  \* MainWin.current_view_id
    next_view_id,     \* MainWin.next_view_id
    panels,           \* the ViewPanel objects built so far; the last is view_window
    timers,           \* single shots not yet fired
    running,          \* the main window is open and the event loop runs
    now,              \* timeit.default_timer(), in seconds
    trace,            \* what the do_action calls of the last step did
    ran               \* times the action of each global rule was executed by a timer

safeVars == <<safe_input, safe_output>>

partsVars == <<parts_input, parts_output>>

textVars == <<text_input, text_output>>

cacheVars == <<cache_files, cache_output>>

sleepVars == <<sleep_event_loop, sleep_shots, sleep_calls, sleep_trace>>

engineVars == <<Variables, Visible, Takeable, GlobalActions, options_Pocketcount, pocket_objects,
                current_view_id, next_view_id, panels, timers, running, now,
                trace, ran>>

vars == <<safe_input, safe_output, parts_input, parts_output, text_input,
          text_output, cache_files, cache_output, sleep_event_loop, sleep_shots,
          sleep_calls, sleep_trace, Variables, Visible, Takeable, GlobalActions,
          options_Pocketcount,
          pocket_objects, current_view_id, next_view_id, panels, timers, running,
          now, trace, ran>>

\* MainWin.task_start_time: the session is constructed at time 0
task_start_time == 0

NoTrace == [by |-> "none", recs |-> << >>]

\* the user dismisses every input dialog
NoAnswer == [accepted |-> FALSE, text |-> << >>]

State ==
    [Variables |-> Variables, Visible |-> Visible, Takeable |-> Takeable,
     GlobalActions |-> GlobalActions, Pocketcount |-> options_Pocketcount,
     pocket_objects |-> pocket_objects,
     current_view_id |-> current_view_id, next_view_id |-> next_view_id,
     panels |-> panels, timers |-> timers, running |-> running, now |-> now,
     task_start_time |-> task_start_time, log |-> << >>, answer |-> NoAnswer]

Install(st) ==
    /\ Variables' = st.Variables
    /\ Visible' = st.Visible
    /\ Takeable' = st.Takeable
    /\ GlobalActions' = st.GlobalActions
    /\ options_Pocketcount' = st.Pocketcount
    /\ pocket_objects' = st.pocket_objects
    /\ current_view_id' = st.current_view_id
    /\ next_view_id' = st.next_view_id
    /\ panels' = st.panels
    /\ timers' = st.timers
    /\ running' = st.running
    /\ now' = st.now

\* the session after MainWin.__init__ with Startview view_id and the option
\* Pocketcount as the environment file gives it: the database as loaded, no
\* variables, and the start view's panel built, which creates the pockets.
\* When create_pockets raises, the construction ends there: no panel, no
\* pockets, no event loop
EngineInitWith(view_id, global_actions, made) ==
    /\ Variables = << >>
    /\ Visible = [o \in ObjIds |-> TRUE]
    /\ Takeable = [o \in ObjIds |-> TRUE]
    /\ GlobalActions = global_actions
    /\ options_Pocketcount = made.Pocketcount
    /\ pocket_objects = made.pocket_objects
    /\ current_view_id = IntVal(str(view_id))
    /\ next_view_id = NoView
    /\ panels = IF made.raised THEN << >>
                ELSE <<NewPanel(view_id, 0, [o \in ObjIds |-> TRUE])>>
    /\ timers = {}
    /\ running = ~made.raised
    /\ now = 0
    /\ trace = NoTrace
    /\ ran = [g \in DOMAIN global_actions |-> 0]

\* the session of the environment whose option Pocketcount is the int
\* Pocketcount
EngineInitAt(view_id, global_actions) ==
    EngineInitWith(view_id, global_actions, create_pockets(IntOption(Pocketcount)))

EngineInit == EngineInitAt(Startview, InitialGlobalActions)

SafeIdle == safe_input = << >> /\ safe_output = "unchecked"

\* no call split yet
Unsplit == [applied |-> FALSE, ok |-> FALSE, fn |-> << >>, param_list |-> << >>]

PartsIdle == parts_input = << >> /\ parts_output = Unsplit

\* no text interpolated yet
Unread == [applied |-> FALSE, text |-> << >>]

TextIdle ==
    /\ text_input = [variables |-> << >>, pieces |-> << >>]
    /\ text_output = Unread

\* no call of ensure_cached yet
Uncalled ==
    [called |-> FALSE, original |-> [folder |-> "", stem |-> "", suffix |-> << >>],
     cached |-> FALSE, outcome |-> "", result |-> None]

\* an empty cache folder and no call of the cache yet
CacheIdle == cache_files = << >> /\ cache_output = Uncalled

\* the panel's loop as built, no single shot and no wait
SleepIdle ==
    /\ sleep_event_loop = QEventLoop
    /\ sleep_shots = [d \in 0..MaxDelay |-> 0]
    /\ sleep_calls = << >>
    /\ sleep_trace = [by |-> "none", running |-> FALSE]

(***************************************************************************)
(* is_safe_value applied to every short text                               *)
(***************************************************************************)
InitSafe ==
    /\ safe_input \in Strings(ValueChars, MaxValLen)
    /\ safe_output = "unchecked"
    /\ PartsIdle /\ TextIdle /\ CacheIdle /\ SleepIdle /\ EngineInit

CheckValue ==
    /\ safe_output = "unchecked"
    /\ safe_output' = is_safe_value(safe_input)
    /\ UNCHANGED <<safe_input, partsVars, textVars, cacheVars, sleepVars, engineVars>>

NextSafe == CheckValue

SpecSafe == InitSafe /\ [][NextSafe]_vars

(***************************************************************************)
(* func_str_parts applied to every call F(...) with a short parameter text *)
(* and to every short text, call or not                                    *)
(***************************************************************************)
CallChars == {"F", "1", "(", ")", "]", " "}

InitParts ==
    /\ parts_input \in
           {<<"F", "(">> \o params \o <<")">> : params \in Strings(ParamChars, MaxParamLen)}
           \cup Strings(CallChars, MaxCallLen)
    /\ parts_output = Unsplit
    /\ SafeIdle /\ TextIdle /\ CacheIdle /\ SleepIdle /\ EngineInit

SplitCall ==
    /\ ~parts_output.applied
    /\ parts_output' = [applied |-> TRUE, ok |-> func_str_parts(parts_input).ok,
                        fn |-> func_str_parts(parts_input).fn,
                        param_list |-> func_str_parts(parts_input).param_list]
    /\ UNCHANGED <<parts_input, safeVars, textVars, cacheVars, sleepVars, engineVars>>

NextParts == SplitCall

SpecParts == InitParts /\ [][NextParts]_vars

(***************************************************************************)
(* The session                                                             *)
(***************************************************************************)
Init == SafeIdle /\ PartsIdle /\ TextIdle /\ CacheIdle /\ SleepIdle /\ EngineInit

\* the panels with the key buffers left out
Unbuffered(view_windows) ==
    [k \in DOMAIN view_windows |-> [view_windows[k] EXCEPT !.key_buffer = << >>]]

\* the event loop delivers a key to view_window, in a session that builds
\* at most max_panels panels and whose rules do not read the key buffer, of
\* which no record is kept
KeyPressWithin(key_text, max_panels) ==
    /\ running
    /\ \E r \in {handle_key_press(State, Len(panels), key_text)} :
           /\ Len(r.st.panels) <= max_panels
           /\ Install([r.st EXCEPT !.panels = Unbuffered(@)])
           /\ trace' = [by |-> "key", recs |-> r.recs]
    /\ UNCHANGED <<ran, safeVars, partsVars, textVars, cacheVars, sleepVars>>

KeyPress(key_text) == KeyPressWithin(key_text, MaxPanels)

\* the zero-delay single shot of ViewPanel.__init__ runs start_timers
StartTimers(p) ==
    /\ running
    /\ panels[p].timers_pending
    /\ \E st \in {start_timers([State EXCEPT !.panels[p].timers_pending = FALSE], p)} :
           Install(st)
    /\ trace' = [by |-> "start_timers", recs |-> << >>]
    /\ UNCHANGED <<ran, safeVars, partsVars, textVars, cacheVars, sleepVars>>

\* a single shot whose delay has elapsed calls do_action on the panel that made it
TimerFire(t) ==
    /\ running
    /\ t.due <= now
    /\ \E r \in {do_action([State EXCEPT !.timers = @ \ {t}], t.panel,
                           t.condition, t.action)} :
           /\ Len(r.st.panels) <= MaxPanels
           /\ Install(r.st)
           /\ trace' = [by |-> "timer", recs |-> <<r.rec>>, shot |-> t]
           /\ IF /\ t.rule[1] = "global"
                 /\ \E k \in 1..Len(r.rec.calls) : r.rec.calls[k][1] = "action"
              THEN /\ ran[t.rule[2]] < MaxRan
                   /\ ran' = [ran EXCEPT ![t.rule[2]] = @ + 1]
              ELSE ran' = ran
    /\ UNCHANGED <<safeVars, partsVars, textVars, cacheVars, sleepVars>>

\* an object the current view shows, one with Draggable set, is dragged onto
\* a pocket
PocketDrop(o, pocket_id) ==
    /\ running
    /\ ObjView[o] = panels[Len(panels)].view_id
    /\ panels[Len(panels)].object_pics[o]
    /\ \E st \in {dropEvent(State, Len(panels), o, pocket_id)} : Install(st)
    /\ trace' = [by |-> "drop", recs |-> << >>]
    /\ UNCHANGED <<ran, safeVars, partsVars, textVars, cacheVars, sleepVars>>

\* ViewPocketObject.mouseMoveEvent and dropEvent: the object a pocket holds
\* is dragged onto a pocket
PocketDrag(from, pocket_id) ==
    /\ running
    /\ pocket_objects[from].Id \in ObjIds
    /\ \E st \in {dropEvent(State, Len(panels), pocket_objects[from].Id, pocket_id)} :
           Install(st)
    /\ trace' = [by |-> "pocket_drag", recs |-> << >>, from |-> from, pocket |-> pocket_id]
    /\ UNCHANGED <<ran, safeVars, partsVars, textVars, cacheVars, sleepVars>>

\* a pocket is right-clicked
PocketRightClick(pocket_id) ==
    /\ running
    /\ \E st \in {handle_pocket_right_click(State, Len(panels), pocket_id)} : Install(st)
    /\ trace' = [by |-> "right_click", recs |-> << >>]
    /\ UNCHANGED <<ran, safeVars, partsVars, textVars, cacheVars, sleepVars>>

\* a second passes
Tick ==
    /\ running
    /\ now < MaxTime
    /\ now' = now + 1
    /\ trace' = NoTrace
    /\ UNCHANGED <<Variables, Visible, Takeable, GlobalActions, options_Pocketcount,
                   pocket_objects, current_view_id, next_view_id, panels, timers, running, ran,
                   safeVars, partsVars, textVars, cacheVars, sleepVars>>

Next ==
    \/ \E key_text \in Keys : KeyPress(key_text)
    \/ \E p \in 1..Len(panels) : StartTimers(p)
    \/ \E t \in timers : TimerFire(t)
    \/ \E o \in ObjIds, pocket_id \in 0..(Pocketcount - 1) : PocketDrop(o, pocket_id)
    \/ \E pocket_id \in 0..(Pocketcount - 1) : PocketRightClick(pocket_id)
    \/ Tick

Spec == Init /\ [][Next]_vars

(***************************************************************************)
(* The session of a user who only presses keys, among them the keys of    *)
(* the rule that sets a variable once and of the two further portals       *)
(***************************************************************************)
SpecKeys ==
    Init /\ [][\E key_text \in Keys \cup {"b", "n", "v"} : KeyPress(key_text)]_vars

(***************************************************************************)
(* The rules that work on a variable, fired on the start view's panel      *)
(***************************************************************************)
\* what the user may do with an input dialog: dismiss it or submit a text
Answers ==
    {NoAnswer} \cup {[accepted |-> TRUE, text |-> t] :
                        t \in {<<"1">>, <<"n", "a", "n">>, <<"i", "n", "f">>}}

\* do_action(condition, action) runs on the panel of the start view
RunRule(condition, action, answer) ==
    /\ \E r \in {do_action([State EXCEPT !.answer = answer], 1, condition, action)} :
           /\ \A n \in DOMAIN r.st.Variables :
                  /\ py_float(r.st.Variables[n]).tenths <= 10 * MaxCount
                  /\ py_float(r.st.Variables[n]).tenths >= 0 - 10 * MaxCount
           /\ Install(r.st)
           /\ trace' = [by |-> "rule", recs |-> <<r.rec>>]
    /\ UNCHANGED <<ran, safeVars, partsVars, textVars, cacheVars, sleepVars>>

NextVars ==
    \E condition \in VarRuleTexts.conditions, action \in VarRuleTexts.actions,
       answer \in Answers : RunRule(condition, action, answer)

SpecVars == Init /\ [][NextVars]_vars

(***************************************************************************)
(* The session of a user who hides, shows and pockets the object of view 1 *)
(* and walks between the two views                                         *)
(***************************************************************************)
NextVisits ==
    \/ \E key_text \in {"d", "e", "f", "g", "h", "p", "r", "s", "x"} :
           KeyPressWithin(key_text, MaxVisits)
    \/ \E o \in ObjIds, pocket_id \in 0..(Pocketcount - 1) : PocketDrop(o, pocket_id)
    \/ \E pocket_id \in 0..(Pocketcount - 1) : PocketRightClick(pocket_id)

SpecVisits == Init /\ [][NextVisits]_vars

(***************************************************************************)
(* The session that starts in view 3: keys, clicks, drops and nav zones,   *)
(* and the timers of the view                                              *)
(***************************************************************************)
InitEvents == SafeIdle /\ PartsIdle /\ TextIdle /\ CacheIdle /\ SleepIdle /\ EngineInitAt(3, GlobalActionsWithDisabled)

\* what a mouse gesture on view_window does is installed
Gesture(by, r) ==
    /\ Len(r.st.panels) <= MaxPanels
    /\ Install(r.st)
    /\ trace' = [by |-> by, recs |-> r.recs]
    /\ UNCHANGED <<ran, safeVars, partsVars, textVars, cacheVars, sleepVars>>

\* a left click on the widget of an object of the view
ObjectClick(o) ==
    /\ running
    /\ ObjView[o] = panels[Len(panels)].view_id
    /\ \E r \in {object_mousePressEvent(State, Len(panels), o)} : Gesture("click", r)

\* an object of the view is dropped on another
ObjectDrop(source_id, target_id) ==
    /\ running
    /\ ObjView[source_id] = panels[Len(panels)].view_id
    /\ ObjView[target_id] = panels[Len(panels)].view_id
    /\ \E r \in {handle_object_drop(State, Len(panels), source_id, target_id)} :
           Gesture("drop", r)

\* a left click on a nav zone of the view
NavPress(nav_type) ==
    /\ running
    /\ \E k \in DOMAIN ViewActions[panels[Len(panels)].view_id] :
           StartsWith(ViewActions[panels[Len(panels)].view_id][k].Trigger, nav_type)
    /\ \E r \in {nav_mousePressEvent(State, Len(panels), nav_type)} : Gesture("nav", r)

NextEvents ==
    \/ KeyPress("k")
    \/ \E o \in ObjIds : ObjectClick(o)
    \/ \E source_id, target_id \in ObjIds : ObjectDrop(source_id, target_id)
    \/ NavPress(<<"N", "a", "v", "L", "e", "f", "t">>)
    \/ \E p \in 1..Len(panels) : StartTimers(p)
    \/ \E t \in timers : TimerFire(t)
    \/ Tick

SpecEvents == InitEvents /\ [][NextEvents]_vars

(***************************************************************************)
(* var_in_text applied to every short message, with the variables a and b  *)
(* unset or set                                                            *)
(***************************************************************************)
\* what a message is written from: a plain character, or a placeholder of
\* either syntax for the name a or b
Pieces ==
    {[kind |-> "plain", text |-> <<"x">>]}
        \cup {[kind |-> k, text |-> n] : k \in {"dollar", "bracket"}, n \in {<<"a">>, <<"b">>}}

\* the message as the environment file has it
RECURSIVE Written(_)
Written(pieces) ==
    IF pieces = << >> THEN << >>
    ELSE (CASE Head(pieces).kind = "dollar" -> <<"$">> \o Head(pieces).text \o <<"$">>
            [] Head(pieces).kind = "bracket" -> <<"[">> \o Head(pieces).text \o <<"]">>
            [] OTHER -> Head(pieces).text) \o Written(Tail(pieces))

\* db.Variables: a is unset, or holds a text, the number SetVariable("a", 1)
\* stores, or a text with brackets; b is unset or holds a text
TextVariables ==
    {[n \in names |-> IF n = StrVal(<<"a">>) THEN a ELSE StrVal(<<"w">>)] :
        names \in {{}, {StrVal(<<"a">>)}, {StrVal(<<"b">>)}, {StrVal(<<"a">>), StrVal(<<"b">>)}},
        a \in {StrVal(<<"v">>), IntVal(<<"1">>), StrVal(<<"[", "b", "]">>)}}

InitText ==
    /\ text_input \in [variables : TextVariables, pieces : Strings(Pieces, MaxPieces)]
    /\ text_output = Unread
    /\ SafeIdle /\ PartsIdle /\ CacheIdle /\ SleepIdle /\ EngineInit

Interpolate ==
    /\ ~text_output.applied
    /\ text_output' = [applied |-> TRUE,
                       text |-> var_in_text(text_input.variables, Written(text_input.pieces))]
    /\ UNCHANGED <<text_input, safeVars, partsVars, cacheVars, sleepVars, engineVars>>

NextText == Interpolate

SpecText == InitText /\ [][NextText]_vars

(***************************************************************************)
(* The session of a user who types in view 2, clears the key buffer with   *)
(* key c and enters the view again with key p or view 1 with key r         *)
(***************************************************************************)
InitTyped ==
    SafeIdle /\ PartsIdle /\ TextIdle /\ CacheIdle /\ SleepIdle /\ EngineInitAt(2, InitialGlobalActions)

\* the event loop delivers a key to view_window, whose key buffer is kept
KeyTyped(key_text) ==
    /\ running
    /\ Len(panels[Len(panels)].key_buffer) < MaxTyped
    /\ \E r \in {handle_key_press(State, Len(panels), key_text)} :
           /\ Len(r.st.panels) <= MaxPanels
           /\ Install(r.st)
           /\ trace' = [by |-> "key", key |-> key_text, recs |-> r.recs]
    /\ UNCHANGED <<ran, safeVars, partsVars, textVars, cacheVars, sleepVars>>

\* the keys c, p and r of the rules, two keys no rule waits for, the key of a
\* character that is not among the allowed ones, and a key without a text
NextTyped == \E key_text \in {"c", "p", "r", "j", "k", "\\xe9", ""} : KeyTyped(key_text)

SpecTyped == InitTyped /\ [][NextTyped]_vars

(***************************************************************************)
(* The session of every setting of the option Pocketcount: the user walks  *)
(* between the views 1 and 2, pockets their objects and puts them back     *)
(***************************************************************************)
\* Global.Options.Pocketcount of the environment file: absent, a text, or an
\* int
PocketcountOptions ==
    {NoOption, StrOption(2)} \cup {IntOption(n) : n \in -1..MaxPockets}

InitPockets ==
    /\ SafeIdle /\ PartsIdle /\ TextIdle /\ CacheIdle /\ SleepIdle
    /\ \E option \in PocketcountOptions :
           EngineInitWith(Startview, InitialGlobalActions, create_pockets(option))

NextPockets ==
    \/ \E key_text \in {"p", "r"} : KeyPressWithin(key_text, MaxVisits)
    \/ \E o \in ObjIds, pocket_id \in DOMAIN pocket_objects : PocketDrop(o, pocket_id)
    \/ \E pocket_id \in DOMAIN pocket_objects : PocketRightClick(pocket_id)

SpecPockets == InitPockets /\ [][NextPockets]_vars

(***************************************************************************)
(* The session of a user who drags the objects of views 1 and 2 onto the   *)
(* pockets and from pocket to pocket, while key rules show and hide        *)
(* object 1 and forbid and allow taking it                                 *)
(***************************************************************************)
NextDrops ==
    \/ \E key_text \in {"d", "e", "f", "g", "p", "r"} : KeyPressWithin(key_text, MaxVisits)
    \/ \E o \in ObjIds, pocket_id \in DOMAIN pocket_objects : PocketDrop(o, pocket_id)
    \/ \E from \in DOMAIN pocket_objects, pocket_id \in DOMAIN pocket_objects :
           PocketDrag(from, pocket_id)
    \/ \E pocket_id \in DOMAIN pocket_objects : PocketRightClick(pocket_id)

SpecDrops == InitPockets /\ [][NextDrops]_vars

(***************************************************************************)
(* The session of a user who walks between views 1 and 2 by keys and by    *)
(* clicks whose rules call PortalTo once or several times, for views that  *)
(* exist and for a view that does not                                      *)
(***************************************************************************)
\* a left click on the widget of an object of the view, in a session that
\* builds at most MaxPortalPanels panels
PortalClick(o) ==
    /\ running
    /\ ObjView[o] = panels[Len(panels)].view_id
    /\ \E r \in {object_mousePressEvent(State, Len(panels), o)} :
           /\ Len(r.st.panels) <= MaxPortalPanels
           /\ Install(r.st)
           /\ trace' = [by |-> "click", recs |-> r.recs]
    /\ UNCHANGED <<ran, safeVars, partsVars, textVars, cacheVars, sleepVars>>

NextPortals ==
    \/ \E key_text \in {"n", "p", "q", "r", "v", "w"} : KeyPressWithin(key_text, MaxPortalPanels)
    \/ \E o \in ObjIds : PortalClick(o)
    \/ \E o \in ObjIds, pocket_id \in 0..(Pocketcount - 1) : PocketDrop(o, pocket_id)

SpecPortals == Init /\ [][NextPortals]_vars

(***************************************************************************)
(* The session that starts in view 4, whose key p enters the view again,   *)
(* and the timers of its panels                                            *)
(***************************************************************************)
InitReentry ==
    /\ SafeIdle /\ PartsIdle /\ TextIdle /\ CacheIdle /\ SleepIdle
    /\ EngineInitAt(4, InitialGlobalActions)

NextReentry ==
    \/ KeyPressWithin("p", MaxVisits)
    \/ \E p \in 1..Len(panels) : StartTimers(p)
    \/ \E t \in timers : TimerFire(t)
    \/ Tick

SpecReentry == InitReentry /\ [][NextReentry]_vars

(***************************************************************************)
(* Rules whose Condition is any call of the vocabulary, a condition or an  *)
(* action, fire in a session in which the user types and pockets objects   *)
(***************************************************************************)
\* the Condition texts of the rules: calls of VALID_CONDITIONS and calls of
\* VALID_ACTIONS
ConditionTexts ==
    {cond_ExistsS, cond_MissingS, act_SetS, act_DelS, act_Hide1, act_Show1,
     act_Disallow1, act_Portal2, rule_text.ClearKeyBuffer}

\* the key buffers of the panels
key_buffers(view_windows) ==
    [k \in DOMAIN view_windows |-> view_windows[k].key_buffer]

\* a rule with the given Condition and Action fires on the panel in front:
\* do_action evaluates the condition and then, when it gave True, the action
FireRule(condition, action) ==
    /\ running
    /\ \E c \in {safe_eval(State, Len(panels), condition)} :
       \E r \in {do_action_from_condition(State, Len(panels), condition, action, c)} :
           /\ Len(r.st.panels) <= MaxPanels
           /\ Install(r.st)
           /\ trace' = [by |-> "rule", recs |-> <<r.rec>>,
                        key_buffers |-> [before |-> key_buffers(panels),
                                         mid |-> key_buffers(c.st.panels)]]
    /\ UNCHANGED <<ran, safeVars, partsVars, textVars, cacheVars, sleepVars>>

NextConds ==
    \/ \E condition \in ConditionTexts, action \in {act_SetS, act_Allow1} :
           FireRule(condition, action)
    \/ KeyTyped("j")
    \/ \E o \in ObjIds, pocket_id \in 0..(Pocketcount - 1) : PocketDrop(o, pocket_id)

SpecConds == Init /\ [][NextConds]_vars

(***************************************************************************)
(* ensure_cached called on the sound files of an environment, one after    *)
(* the other, with every outcome of a conversion                           *)
(***************************************************************************)
\* the sound files: two names in two media folders, with every suffix
AudioFiles ==
    [folder : {"media", "extra"}, stem : {"a", "b"},
     suffix : COMPRESSED_FORMATS \cup {<<".", "M", "P", "3">>, <<".", "w", "a", "v">>, << >>}]

InitCache ==
    SafeIdle /\ PartsIdle /\ TextIdle /\ CacheIdle /\ SleepIdle /\ EngineInit

EnsureCached(original, outcome) ==
    /\ cache_files' = ensure_cached(cache_files, original, outcome).files
    /\ cache_output' =
           [called |-> TRUE, original |-> original,
            cached |-> get_cached_wav_path(original).stem \in DOMAIN cache_files,
            outcome |-> outcome,
            result |-> ensure_cached(cache_files, original, outcome).result]
    /\ UNCHANGED <<safeVars, partsVars, textVars, sleepVars, engineVars>>

NextCache ==
    \E original \in AudioFiles, outcome \in {"written", "undecodable", "unwritable"} :
        EnsureCached(original, outcome)

SpecCache == InitCache /\ [][NextCache]_vars

(***************************************************************************)
(* The sound files are cached one after the other, and the path to play a  *)
(* file from is asked for                                                  *)
(***************************************************************************)
GetPlaybackPath(original) ==
    /\ cache_output' =
           [called |-> TRUE, original |-> original,
            cached |-> get_cached_wav_path(original).stem \in DOMAIN cache_files,
            outcome |-> "playback",
            result |-> get_playback_path(cache_files, original)]
    /\ UNCHANGED <<cache_files, safeVars, partsVars, textVars, sleepVars, engineVars>>

NextPlayback ==
    \/ \E original \in AudioFiles, outcome \in {"written", "undecodable", "unwritable"} :
           EnsureCached(original, outcome)
    \/ \E original \in AudioFiles : GetPlaybackPath(original)

SpecPlayback == InitCache /\ [][NextPlayback]_vars

(***************************************************************************)
(* The synchronous wait of a panel: rules play sounds with                 *)
(* asynchronous=False, also while an earlier one waits, and time passes    *)
(***************************************************************************)
\* the number of single shots that are due within d units
RECURSIVE Pending(_, _)
Pending(shots, d) == IF d < 0 THEN 0 ELSE shots[d] + Pending(shots, d - 1)

InitSleep ==
    SafeIdle /\ PartsIdle /\ TextIdle /\ CacheIdle /\ SleepIdle /\ EngineInit

InstallSleep(r, by, was_running) ==
    /\ sleep_event_loop' = r.loop
    /\ sleep_shots' = r.shots
    /\ sleep_calls' = r.calls
    /\ sleep_trace' = [by |-> by, running |-> was_running]
    /\ UNCHANGED <<safeVars, partsVars, textVars, cacheVars, engineVars>>

\* the event loop that runs, the application's or the one of sleep, delivers
\* an event whose rule plays a sound that lasts time_left after the first
\* 500 ms
PlaySoundWaiting(time_left) ==
    /\ Pending(sleep_shots, MaxDelay) + 2 <= MaxShots
    /\ InstallSleep(play_sound(sleep_event_loop, sleep_shots, sleep_calls, time_left),
                    "play_sound", isRunning(sleep_event_loop))

\* a single shot of sleep is due and calls quit
QuitShot ==
    /\ sleep_shots[0] > 0
    /\ InstallSleep([loop |-> quit(sleep_event_loop),
                     shots |-> [sleep_shots EXCEPT ![0] = @ - 1],
                     calls |-> sleep_calls], "quit", isRunning(sleep_event_loop))

\* the loop of the innermost wait finds that quit was called
ExecReturns ==
    /\ sleep_calls # << >>
    /\ sleep_event_loop.exit
    /\ Pending(sleep_shots, MaxDelay) + 1 <= MaxShots
    /\ InstallSleep(exec_returns(sleep_event_loop, sleep_shots, sleep_calls),
                    "return", FALSE)

\* 500 ms pass
SleepTick ==
    /\ sleep_shots[0] = 0
    /\ InstallSleep([loop |-> sleep_event_loop,
                     shots |-> [d \in 0..MaxDelay |->
                                  IF d < MaxDelay THEN sleep_shots[d + 1] ELSE 0],
                     calls |-> sleep_calls], "tick", isRunning(sleep_event_loop))

NextSleep ==
    \/ \E time_left \in 0..MaxDelay : PlaySoundWaiting(time_left)
    \/ QuitShot
    \/ ExecReturns
    \/ SleepTick

SpecSleep == InitSleep /\ [][NextSleep]_vars

(***************************************************************************)
(* The parameter text of every short call, as the protection pass leaves   *)
(* it, split, joined with commas and split again                           *)
(***************************************************************************)
SplitChars == {"1", ",", "[", "]", DQ, " "}

InitSplit ==
    /\ parts_input \in
           {<<"F", "(">> \o params \o <<")">> : params \in Strings(SplitChars, MaxSplitLen)}
    /\ parts_output = Unsplit
    /\ SafeIdle /\ TextIdle /\ CacheIdle /\ SleepIdle /\ EngineInit

\* ",".join(pieces)
RECURSIVE join(_)
join(pieces) ==
    IF Len(pieces) <= 1 THEN (IF pieces = << >> THEN << >> ELSE pieces[1])
    ELSE pieces[1] \o <<",">> \o join(Tail(pieces))

\* func_str_parts up to the split of its parameter text: params is group 2
\* of the match on the protected text; the pieces are joined and split again
Resplit(matched, pieces) ==
    [applied |-> TRUE, ok |-> matched.ok, fn |-> matched.fn, param_list |-> << >>,
     params |-> matched.params, pieces |-> pieces, joined |-> join(pieces),
     again |-> split_pattern_split(join(pieces))]

SplitAndJoin ==
    /\ ~parts_output.applied
    /\ parts_output' =
           Resplit(func_pattern_fullmatch(
                       _replace_brackets_outside_quotes(Strip(parts_input), LEFT, RIGHT)),
                   split_pattern_split(func_pattern_fullmatch(
                       _replace_brackets_outside_quotes(Strip(parts_input), LEFT, RIGHT)).params))
    /\ UNCHANGED <<parts_input, safeVars, textVars, cacheVars, sleepVars, engineVars>>

NextSplit == SplitAndJoin

SpecSplit == InitSplit /\ [][NextSplit]_vars

(***************************************************************************)
(* Properties                                                              *)
(***************************************************************************)
\* what the dispatcher makes of an expression
Malformed(expression) == ~func_str_parts(expression).ok

Unknown(expression) ==
    func_str_parts(expression).ok /\ func_str_parts(expression).fn \notin ok_calls

HasUnsafeArgument(expression) ==
    LET call == func_str_parts(expression) IN
    /\ call.ok
    /\ \E k \in 1..Len(call.param_list) :
           is_safe_value(get_param(call.param_list[k])) = "False"

\* the handlers one do_action call invoked for the condition and for the action
ConditionCalls(rec) == {k \in 1..Len(rec.calls) : rec.calls[k][1] = "condition"}

ActionCalls(rec) == {k \in 1..Len(rec.calls) : rec.calls[k][1] = "action"}

\* C1: when an argument of an expression fails is_safe_value, safe_eval
\* invokes no handler, returns None and leaves the variables, the visible and
\* takeable flags, the pockets and the current view as they were.
C1_UnsafeArgumentRefused ==
    \A k \in 1..Len(trace.recs) :
        LET rec == trace.recs[k] IN
        /\ (rec.condition # << >> /\ HasUnsafeArgument(rec.condition)) =>
              /\ rec.cond_ret = "None"
              /\ ConditionCalls(rec) = {}
              /\ rec.mid = rec.before
        /\ (rec.act_ret # "skipped" /\ HasUnsafeArgument(rec.action)) =>
              /\ rec.act_ret = "None"
              /\ ActionCalls(rec) = {}
              /\ rec.after = rec.mid

\* C2: is_safe_value returns false for every text whose syntax tree holds a
\* name, a call, an attribute access, a subscript or an operator at any depth.
C2_UnsafeTextRejected ==
    (/\ safe_output # "unchecked"
     /\ ast_parse(safe_input).ok
     /\ ast_parse(safe_input).inner
            \cap {"Name", "Call", "Attribute", "Subscript", "UnaryOp", "BinOp"} # {})
        => safe_output = "False"

\* C3: is_safe_value returns true for every text that is a literal scalar or
\* a list or tuple literal, nested to any depth, with literal scalars as leaves.
C3_LiteralAccepted ==
    (/\ safe_output # "unchecked"
     /\ ast_parse(safe_input).ok
     /\ ast_parse(safe_input).inner \subseteq {"Constant", "List", "Tuple"})
        => safe_output = "True"

\* C4: for an expression whose function name is outside the vocabulary,
\* safe_eval invokes no handler and returns None, valid_api_call returns the
\* empty tuple, and do_action given it as condition or as action raises
\* nothing and changes no state.
C4_UnknownNameRefused ==
    \A k \in 1..Len(trace.recs) :
        LET rec == trace.recs[k] IN
        /\ (rec.condition # << >> /\ Unknown(rec.condition)) =>
              /\ rec.cond_ret = "None"
              /\ rec.calls = << >>
              /\ rec.raised = "no"
              /\ rec.after = rec.before
              /\ valid_api_call(rec.condition) = << >>
        /\ (rec.act_ret # "skipped" /\ Unknown(rec.action)) =>
              /\ rec.act_ret = "None"
              /\ ActionCalls(rec) = {}
              /\ rec.raised = "no"
              /\ rec.after = rec.mid
              /\ valid_api_call(rec.action) = << >>

\* one key press ran a rule with an unknown condition and a rule with an
\* unknown action
C4_Witness ==
    /\ trace.by = "key"
    /\ \E k \in 1..Len(trace.recs) :
           trace.recs[k].condition # << >> /\ Unknown(trace.recs[k].condition)
    /\ \E k \in 1..Len(trace.recs) :
           /\ trace.recs[k].cond_ret = "True"
           /\ trace.recs[k].act_ret = "None"
           /\ Unknown(trace.recs[k].action)

\* C5: when a rule's non-empty condition is malformed, names something
\* outside the vocabulary or has an unsafe argument, do_action invokes no
\* action handler, raises nothing and leaves the shared state unchanged.
C5_BadConditionBlocksAction ==
    \A k \in 1..Len(trace.recs) :
        LET rec == trace.recs[k] IN
        (/\ rec.condition # << >>
         /\ \/ Malformed(rec.condition)
            \/ Unknown(rec.condition)
            \/ HasUnsafeArgument(rec.condition)) =>
              /\ ActionCalls(rec) = {}
              /\ rec.raised = "no"
              /\ rec.after = rec.before

\* C6: in one do_action call the condition is evaluated before the action
\* is attempted, the action handler is invoked only if the condition is empty
\* or gave a true value, and at most once.
C6_ConditionThenActionOnce ==
    \A k \in 1..Len(trace.recs) :
        LET rec == trace.recs[k] IN
        /\ Cardinality(ActionCalls(rec)) <= 1
        /\ \A a \in ActionCalls(rec) : \A c \in ConditionCalls(rec) : c < a
        /\ (rec.act_ret # "skipped") => (rec.condition = << >> \/ rec.cond_ret = "True")
        /\ (ActionCalls(rec) # {}) => rec.act_ret # "skipped"
        /\ (rec.condition # << >> /\ rec.cond_ret # "True") => rec.after = rec.mid

\* a rule whose condition held ran its condition handler, then its action
\* handler
C6_Witness ==
    \E k \in 1..Len(trace.recs) :
        /\ trace.recs[k].condition # << >>
        /\ trace.recs[k].cond_ret = "True"
        /\ trace.recs[k].calls = <<<<"condition", name_VarExists>>,
                                   <<"action", name_DelVariable>>>>
        /\ trace.recs[k].after # trace.recs[k].mid

\* C7: the action of a TotalTimePassed rule of GlobalActions is executed at
\* most once in a session, however many views are entered.
C7_GlobalRuleRunsOnce == \A g \in DOMAIN ran : ran[g] <= 1

\* the global rule ran once, was disabled, and a second view was entered and
\* started its timers
C7_Witness ==
    /\ ran[1] = 1
    /\ ~GlobalActions[1].Enabled
    /\ Len(panels) >= 2
    /\ \A p \in 1..Len(panels) : ~panels[p].timers_pending

\* C8: a timer that an open view made for one of its rules runs no do_action
\* once the view was closed before the timer's delay elapsed.
C8_NoTimerOfClosedView ==
    (trace.by = "timer" /\ trace.shot.rule[1] = "view" /\ trace.shot.made_open) =>
        \A k \in 1..Len(trace.recs) : ~trace.recs[k].panel_closed

\* C9: func_str_parts returns the function name and one piece per top-level
\* argument, in order, each the argument's own text; a comma inside a string,
\* a list or a tuple splits nothing.  Stated for the calls F(...) whose
\* strings and brackets are closed and whose top-level arguments, the pieces
\* between the commas outside every string and bracket, are all literals.
C9_OnePiecePerArgument ==
    LET params == SubSeq(parts_input, 3, Len(parts_input) - 1)
        \* the brackets open after s[1..n]; <<"unbalanced">> when a string
        \* is left open or a bracket closes nothing or the wrong bracket
        RECURSIVE OpenBrackets(_, _, _, _)
        OpenBrackets(s, i, open, quoted) ==
            IF i > Len(s) THEN (IF quoted THEN <<"unbalanced">> ELSE open)
            ELSE IF s[i] = DQ THEN OpenBrackets(s, i + 1, open, ~quoted)
            ELSE IF quoted THEN OpenBrackets(s, i + 1, open, quoted)
            ELSE IF s[i] \in {"(", "["}
                 THEN OpenBrackets(s, i + 1, Append(open, s[i]), quoted)
            ELSE IF s[i] \in {")", "]"}
                 THEN IF open # << >>
                         /\ open[Len(open)] = (IF s[i] = ")" THEN "(" ELSE "[")
                      THEN OpenBrackets(s, i + 1, Take(open, Len(open) - 1), quoted)
                      ELSE <<"unbalanced">>
            ELSE OpenBrackets(s, i + 1, open, quoted)
        RECURSIVE TopLevelArguments(_, _, _)
        TopLevelArguments(s, i, start) ==
            IF i > Len(s) THEN <<SubSeq(s, start, Len(s))>>
            ELSE IF s[i] = "," /\ OpenBrackets(Take(s, i), 1, << >>, FALSE) = << >>
                 THEN <<SubSeq(s, start, i - 1)>> \o TopLevelArguments(s, i + 1, i + 1)
            ELSE TopLevelArguments(s, i + 1, start)
        arguments == TopLevelArguments(params, 1, 1)
        WellFormed ==
            /\ OpenBrackets(params, 1, << >>, FALSE) = << >>
            /\ \A k \in 1..Len(arguments) :
                   /\ ast_parse(Strip(arguments[k])).ok
                   /\ ast_parse(Strip(arguments[k])).inner
                          \subseteq {"Constant", "List", "Tuple"}
        CallOfF ==
            /\ Len(parts_input) >= 3
            /\ Take(parts_input, 2) = <<"F", "(">>
            /\ parts_input[Len(parts_input)] = ")"
    IN  (parts_output.applied /\ CallOfF /\ WellFormed) =>
            /\ parts_output.ok
            /\ parts_output.fn = <<"F">>
            /\ Len(parts_output.param_list) = Len(arguments)
            /\ \A k \in 1..Len(parts_output.param_list) :
                   Strip(parts_output.param_list[k]) = Strip(arguments[k])

\* C10: for a call with an empty parameter list func_str_parts returns an
\* empty argument sequence.
C10_EmptyParameterList ==
    (parts_output.applied /\ parts_input = <<"F", "(", ")">>) =>
        parts_output.ok /\ Len(parts_output.param_list) = 0

\* C11: func_str_parts fails (ValueError) for every input that, once trimmed,
\* is not an identifier, an opening parenthesis, arguments and a closing
\* parenthesis that ends the text.  Blanks between the identifier and the
\* parenthesis are let through, as the pattern lets them through.
C11_NotACallFails ==
    LET cmd == Strip(parts_input)
        w == RunLen(cmd, WordChars)
        open == w + RunLen(Drop(cmd, w), Whitespace) + 1
        CallForm ==
            /\ w >= 1
            /\ open < Len(cmd)
            /\ cmd[open] = "("
            /\ cmd[Len(cmd)] = ")"
    IN  (parts_output.applied /\ ~CallForm) => ~parts_output.ok

\* the do_action calls of the last step in which the named handler ran as
\* the action
ActionCallsOf(fn) ==
    {k \in 1..Len(trace.recs) :
        \E c \in 1..Len(trace.recs[k].calls) : trace.recs[k].calls[c] = <<"action", fn>>}

C13_SeedsWhenUnreadable ==
    LET s == StrVal(<<"s">>)
        Unreadable(held) ==
            \/ s \notin DOMAIN held
            \/ held[s].type = "str" /\ ~py_float(held[s]).ok
        Seeded(rec, seed) ==
            /\ rec.raised = "no"
            /\ s \in DOMAIN rec.after.Variables
            /\ rec.after.Variables[s] = StrVal(seed)
    IN  /\ \A k \in ActionCallsOf(api_name.VarIncrease) :
               Unreadable(trace.recs[k].mid.Variables) => Seeded(trace.recs[k], <<"1">>)
        /\ \A k \in ActionCallsOf(api_name.VarDecrease) :
               /\ Unreadable(trace.recs[k].mid.Variables) => Seeded(trace.recs[k], <<"0">>)
               /\ (/\ s \in DOMAIN trace.recs[k].mid.Variables
                   /\ trace.recs[k].mid.Variables[s] = StrVal(<<"1">>))
                      => Seeded(trace.recs[k], <<"0">>)

\* VarIncrease ran on the text "a" and left "1"
C13_Witness ==
    /\ ActionCallsOf(api_name.VarIncrease) = {1}
    /\ StrVal(<<"s">>) \in DOMAIN trace.recs[1].mid.Variables
    /\ trace.recs[1].mid.Variables[StrVal(<<"s">>)] = StrVal(<<"a">>)
    /\ Variables[StrVal(<<"s">>)] = StrVal(<<"1">>)

C15_ValuesAreStrings ==
    \A n \in DOMAIN Variables : Variables[n].type = "str"

\* C16: DelVariable of a name that Variables holds removes it; DelVariable
\* of a name it does not hold changes nothing and logs an invalid result,
\* and no valid one, for the call.
C16_DeleteOfAbsentLogsInvalid ==
    LET s == StrVal(<<"s">>)
        Deleted(rec) ==
            /\ s \notin DOMAIN rec.after.Variables
            /\ s \notin DOMAIN rec.mid.Variables =>
                   /\ rec.after.Variables = rec.mid.Variables
                   /\ \E e \in 1..Len(rec.log) : rec.log[e][2] = "Invalid|NoSuchVarExists"
                   /\ \A e \in 1..Len(rec.log) : rec.log[e][2] # "Valid"
    IN  \A k \in ActionCallsOf(name_DelVariable) : Deleted(trace.recs[k])

\* C17: a key rule with the condition VarMissing("s") and the action
\* SetVariable("s", "1") executes its action on a press exactly when s is
\* missing at that press, and s exists after every press: so of any number
\* of presses with no deletion in between only the first executes it.
C17_SetsOnFirstPressOnly ==
    \A k \in 1..Len(trace.recs) :
        LET rec == trace.recs[k] IN
        (trace.by = "key" /\ rec.condition = cond_MissingS /\ rec.action = act_SetS) =>
            /\ rec.raised = "no"
            /\ (ActionCalls(rec) # {}) = (StrVal(<<"s">>) \notin DOMAIN rec.before.Variables)
            /\ StrVal(<<"s">>) \in DOMAIN rec.after.Variables
            /\ StrVal(<<"s">>) \in DOMAIN rec.before.Variables =>
                   rec.after.Variables = rec.before.Variables

\* a press that found s set, and executed nothing
C17_Witness ==
    /\ trace.by = "key"
    /\ Len(trace.recs) = 1
    /\ trace.recs[1].condition = cond_MissingS
    /\ trace.recs[1].cond_ret = "False"
    /\ ActionCalls(trace.recs[1]) = {}
    /\ Variables[StrVal(<<"s">>)] = StrVal(<<"1">>)

\* C18: PortalTo of a view that is not in Views logs the result
\* Invalid|ViewDoesNotExist and nothing else, asks for no view switch, and
\* leaves current_view_id, next_view_id and the panels as they were.
C18_UnknownViewRefused ==
    [][(/\ trace'.by = "key"
        /\ Len(trace'.recs) = 1
        /\ trace'.recs[1].action = act_Portal9)
          => /\ trace'.recs[1].log = <<<<"PortalTo", "Invalid|ViewDoesNotExist">>>>
             /\ trace'.recs[1].raised = "no"
             /\ UNCHANGED <<current_view_id, next_view_id, panels, running>>]_vars

\* the rule with the action PortalTo(9) ran
C18_Witness ==
    /\ trace.by = "key"
    /\ Len(trace.recs) = 1
    /\ trace.recs[1].action = act_Portal9
    /\ ActionCalls(trace.recs[1]) # {}

C20_WidgetAgreesWithFlag ==
    \A k \in 1..Len(trace.recs) :
        LET rec == trace.recs[k]
            named == IF rec.action \in {act_Hide1, act_Show1} THEN {1}
                     ELSE IF rec.action = act_Hide2 THEN {2}
                     ELSE {}
            on_screen == panels[Len(panels)]
        IN  (/\ rec.raised = "no"
             /\ \E c \in ActionCalls(rec) :
                    rec.calls[c][2] \in {name_ShowObject, name_HideObject}
             /\ running
             /\ ~on_screen.closed) =>
                \A o \in named \cap DOMAIN on_screen.object_pics :
                    on_screen.object_pics[o] = Visible[o]

\* C21: the Visible and Takeable flags survive a view transition: a PortalTo
\* call changes neither, the panel built for a view shows each of its objects
\* exactly when the object's Visible flag is set, and a flag that is off
\* comes on again only by a ShowObject call or by the right click that
\* releases a pocket.
C21_FlagsSurviveTransitions ==
    [][/\ \A k \in 1..Len(trace'.recs) :
              (\E c \in ActionCalls(trace'.recs[k]) :
                   trace'.recs[k].calls[c][2] = name_PortalTo) =>
                  /\ trace'.recs[k].after.Visible = trace'.recs[k].mid.Visible
                  /\ trace'.recs[k].after.Takeable = trace'.recs[k].mid.Takeable
       /\ Len(panels') > Len(panels) =>
              \A o \in DOMAIN panels'[Len(panels')].object_pics :
                  panels'[Len(panels')].object_pics[o] = Visible'[o]
       /\ \A o \in ObjIds :
              (~Visible[o] /\ Visible'[o]) =>
                  \/ trace'.by = "right_click"
                  \/ \E k \in 1..Len(trace'.recs) :
                         \E c \in ActionCalls(trace'.recs[k]) :
                             trace'.recs[k].calls[c][2] = name_ShowObject]_vars

\* view 1 was left and is entered again, with its object hidden by HideObject
\* (no pocket holds it) and its widget not shown
C21_Witness ==
    /\ trace.by = "key"
    /\ Len(trace.recs) = 1
    /\ trace.recs[1].action = rule_text.Portal1
    /\ Len(panels) = 3
    /\ panels[3].view_id = 1
    /\ ~Visible[1]
    /\ ~panels[3].object_pics[1]
    /\ \A k \in DOMAIN pocket_objects : pocket_objects[k] = EmptyPocket

\* C22: ShowObject, HideObject, AllowTake and DisallowTake called with the id
\* of an object that is in no view change no Visible and no Takeable flag,
\* and the call logs a record with the result Invalid|ObjectDoesNotExist.
C22_UnknownObjectLogsInvalid ==
    \A k \in 1..Len(trace.recs) :
        LET rec == trace.recs[k] IN
        (/\ rec.action \in {rule_text.Show9, rule_text.Hide9,
                            rule_text.Allow9, rule_text.Disallow9}
         /\ ActionCalls(rec) # {}) =>
            /\ rec.raised = "no"
            /\ rec.after.Visible = rec.before.Visible
            /\ rec.after.Takeable = rec.before.Takeable
            /\ \E e \in 1..Len(rec.log) : rec.log[e][2] = "Invalid|ObjectDoesNotExist"

\* the actions of the rules the environment file has switched off; no rule
\* that is on has one of them
ActionsOfDisabledRules ==
    {r.Action : r \in {x \in Range(View3Actions) \cup Range(ObjectActions[3])
                                \cup Range(GlobalActionsWithDisabled) : ~x.Enabled}}

\* C23: no key press, click, drop or nav-zone press runs do_action for a
\* rule that is switched off, start_timers makes no timer for one (none is
\* ever pending), and so the action of such a rule never takes effect.
C23_DisabledRuleNeverRuns ==
    /\ \A k \in 1..Len(trace.recs) : trace.recs[k].action \notin ActionsOfDisabledRules
    /\ \A t \in timers : t.action \notin ActionsOfDisabledRules
    /\ StrVal(<<"o", "f", "f">>) \notin DOMAIN Variables

\* the key that a rule switched on and a rule switched off both wait for was
\* pressed after the timers of the view had been started
C23_Witness ==
    /\ trace.by = "key"
    /\ Len(trace.recs) = 1
    /\ trace.recs[1].action = act_SetS
    /\ panels[1].view_id = 3
    /\ ~panels[1].timers_pending
    /\ timers # {}

\* the message with every placeholder replaced by the value of its variable,
\* or by Unknown when the variable is not set
RECURSIVE Interpolated(_, _)
Interpolated(variables, pieces) ==
    IF pieces = << >> THEN << >>
    ELSE (IF Head(pieces).kind = "plain" THEN Head(pieces).text
          ELSE IF StrVal(Head(pieces).text) \in DOMAIN variables
               THEN variables[StrVal(Head(pieces).text)].text
          ELSE <<"U", "n", "k", "n", "o", "w", "n">>) \o Interpolated(variables, Tail(pieces))

\* C24: var_in_text gives the message with every $Name$ and every [Name]
\* placeholder replaced by the current value of Variables[Name] when Name is
\* set, and by the text Unknown when it is not.
C24_PlaceholdersTakeCurrentValue ==
    text_output.applied =>
        text_output.text = Interpolated(text_input.variables, text_input.pieces)

\* C25: every invocation of an action handler appends at least one log
\* record (with the kind, the type, the view, the parameters and a Result
\* that is Valid or Invalid|reason): a do_action call that invoked a handler
\* for its action, and none for a condition, has logged a record.
C25_EveryActionCallLogs ==
    \A k \in 1..Len(trace.recs) :
        (ConditionCalls(trace.recs[k]) = {} /\ ActionCalls(trace.recs[k]) # {}) =>
            trace.recs[k].log # << >>

\* the panels on which a ClearKeyBuffer call ran in the step that ends in
\* the given trace
ClearedPanels(step) ==
    {step.recs[k].panel : k \in {j \in 1..Len(step.recs) :
        \E c \in ActionCalls(step.recs[j]) :
            step.recs[j].calls[c][2] = api_name.ClearKeyBuffer}}

\* C26: the key buffer of a panel is empty when its view is entered and
\* after a step in which ClearKeyBuffer ran on it; any other key press adds
\* the text of the key, when it is an allowed one, to the end of the buffer
\* of the panel in front, and changes no other buffer.
C26_KeyBufferIsWhatWasTyped ==
    [][/\ \A q \in (Len(panels) + 1)..Len(panels') : panels'[q].key_buffer = << >>
       /\ \A q \in 1..Len(panels) :
              panels'[q].key_buffer =
                  IF q \in ClearedPanels(trace') THEN << >>
                  ELSE IF q = Len(panels) /\ trace'.by = "key" /\ trace'.key \in allowed
                       THEN Append(panels[q].key_buffer, trace'.key)
                  ELSE panels[q].key_buffer]_vars

\* k and then p were typed in view 2, which p entered anew, and there the
\* key c has just cleared the buffer
C26_Witness ==
    /\ Len(panels) = 2
    /\ panels[1].key_buffer = <<"k", "p">>
    /\ panels[2].view_id = 2
    /\ panels[2].key_buffer = << >>
    /\ trace.by = "key"
    /\ trace.key = "c"
    /\ ClearedPanels(trace) = {2}

\* the pockets are those the option Pocketcount asks for: as many as the
\* option says when it is an int that can be a count, and 4 otherwise
PocketsAsOption ==
    Cardinality(DOMAIN pocket_objects) =
        IF options_Pocketcount.type = "int" /\ options_Pocketcount.n >= 0
        THEN options_Pocketcount.n ELSE 4

\* no step changes the number of pockets, and a step that builds the panel
\* of the next view changes no pocket
PocketsKept ==
    [][/\ DOMAIN pocket_objects' = DOMAIN pocket_objects
       /\ Len(panels') > Len(panels) => pocket_objects' = pocket_objects]_vars

\* C27: once the first view is loaded there are Pocketcount pockets, 4 when
\* the option is not a valid integer; from then on no step changes their
\* number and no view transition changes what a pocket holds.
C27_PocketsCreatedOnce == []PocketsAsOption /\ PocketsKept

\* C28: ensure_cached returns the original path for a file that is not of
\* a compressed format, the path of the cached WAV file when the file is
\* compressed and is cached already or is converted, and None when the
\* conversion fails.
C28_EnsureCachedResult ==
    cache_output.called =>
        cache_output.result =
            IF ~is_compressed_audio(cache_output.original)
            THEN PathOf(cache_output.original)
            ELSE IF cache_output.cached \/ cache_output.outcome = "written"
            THEN PathOf(get_cached_wav_path(cache_output.original))
            ELSE None

\* a rule start_timers has to schedule: it is enabled, its trigger is a
\* timed one with a time that is a number, its action is valid and its
\* condition is valid or empty
Schedulable(action) ==
    /\ action.Enabled
    /\ valid_api_call(action.Action) # << >>
    /\ (action.Condition = << >> \/ valid_api_call(action.Condition) # << >>)
    /\ valid_api_call(action.Trigger) # << >>
    /\ valid_api_call(action.Trigger)[1] \in {name_TotalTimePassed, name_ViewTimePassed}
    /\ float_of(valid_api_call(action.Trigger)[2][1]).ok

\* the rules of GlobalActions and of the view of panel p that start_timers
\* has to schedule
SchedulableRules(p) ==
    {<<"global", i>> : i \in {k \in DOMAIN GlobalActions : Schedulable(GlobalActions[k])}}
        \cup {<<"view", i>> : i \in {k \in DOMAIN ViewActions[panels[p].view_id] :
                                        Schedulable(ViewActions[panels[p].view_id][k])}}

\* C29: when start_timers has run on a panel, every enabled and valid timed
\* rule of GlobalActions and of the panel's view has a timer of that panel,
\* whatever invalid rules or unreadable times the other rules have.
C29_BadTimedRuleAffectsOnlyItself ==
    [][\A p \in 1..Len(panels) :
           (trace'.by = "start_timers" /\ panels[p].timers_pending
                /\ ~panels'[p].timers_pending) =>
               \A rule \in SchedulableRules(p) :
                   \E t \in timers' : t.rule = rule /\ t.panel = p]_vars

\* the seconds the rule has been due for when start_timers scans it on
\* panel p: passed_so_far_secs - trigger_time_secs
Overdue(rule, p) ==
    LET Since(action) ==
            (IF valid_api_call(action.Trigger)[1] = name_TotalTimePassed
             THEN now - task_start_time ELSE now - panels[p].view_start_time)
                - float_of(valid_api_call(action.Trigger)[2][1]).secs
    IN  Since(IF rule[1] = "global" THEN GlobalActions[rule[2]]
              ELSE ViewActions[panels[p].view_id][rule[2]])

\* C30: a run of start_timers executes no rule: it leaves the variables,
\* the objects, the pockets, the views and the earlier timers as they are,
\* and every timer it makes is one of its panel, due now when the rule is
\* due already and due after the remaining time otherwise.
C30_StartTimersOnlySchedules ==
    [][\A p \in 1..Len(panels) :
           (trace'.by = "start_timers" /\ panels[p].timers_pending
                /\ ~panels'[p].timers_pending) =>
               /\ UNCHANGED <<Variables, Visible, Takeable, pocket_objects,
                              current_view_id, next_view_id, running, now>>
               /\ Len(panels') = Len(panels)
               /\ timers \subseteq timers'
               /\ \A t \in timers' \ timers :
                      /\ t.panel = p
                      /\ t.due = IF Overdue(t.rule, p) >= 0 THEN now
                                 ELSE now - Overdue(t.rule, p)]_vars

\* start_timers has just run on the panel of view 3, 0 seconds after the
\* view was entered: the rule of ViewTimePassed(0) has its timer, due now,
\* and its action has not set the variable
C30_Witness ==
    /\ trace.by = "start_timers"
    /\ panels[1].view_id = 3
    /\ ~panels[1].timers_pending
    /\ \E t \in timers : t.rule = <<"view", 5>> /\ t.panel = 1 /\ t.due = now
    /\ Variables = << >>

\* C31: at most one call of exec() of the panel's sleep_event_loop runs at
\* any time, and a sleep that starts while the loop is running makes the
\* running wait end instead of waiting inside it.
C31_OneSynchronousWait ==
    /\ Len(sleep_calls) <= 1
    /\ (sleep_trace.by = "play_sound" /\ sleep_trace.running) =>
           (Len(sleep_calls) = 1 /\ sleep_event_loop.inExec /\ sleep_event_loop.exit)

\* a sound was played with asynchronous=False while an earlier one waited:
\* the earlier wait is still the only one, and it has been told to end
C31_Witness ==
    /\ sleep_trace.by = "play_sound"
    /\ sleep_trace.running
    /\ Len(sleep_calls) = 1
    /\ sleep_calls[1].at = "start"
    /\ sleep_event_loop.exit
    /\ Pending(sleep_shots, MaxDelay) >= 3

\* the text without the white space that stands next to a comma
RECURSIVE Squeezed(_)
Squeezed(text) ==
    IF text = << >> THEN << >>
    ELSE IF text[1] \in Whitespace
            /\ RunLen(text, Whitespace) < Len(text)
            /\ text[RunLen(text, Whitespace) + 1] = ","
         THEN Squeezed(Drop(text, RunLen(text, Whitespace)))
    ELSE IF text[1] = ","
         THEN <<",">> \o Squeezed(Drop(text, 1 + RunLen(Tail(text), Whitespace)))
    ELSE <<text[1]>> \o Squeezed(Tail(text))

\* C32: the parameter text the protection pass produces, split on the
\* commas outside double quotes and joined with commas again, is the text
\* itself up to the white space next to commas, and splitting the joined
\* text gives the same pieces.
C32_SplitJoinIdempotent ==
    (parts_output.applied /\ parts_output.ok) =>
        /\ Squeezed(parts_output.joined) = Squeezed(parts_output.params)
        /\ parts_output.again = parts_output.pieces

\* F([,], ): a comma inside protected brackets, and a comma with a blank
\* after it that the split takes away
C32_Witness ==
    /\ parts_input = <<"F", "(", "[", ",", "]", ",", " ", ")">>
    /\ parts_output.applied
    /\ parts_output.ok
    /\ parts_output.pieces = <<LEFT \o <<",">> \o RIGHT, << >>>>
    /\ parts_output.joined # parts_output.params

\* C33: an object whose Takeable flag is false never becomes the content of a
\* pocket: a drop changes a pocket only to hold an object that was takeable
\* when it was dropped, so dropping an object that is not takeable leaves
\* the pocket empty and the object visible.
C33_UntakeableNeverPocketed ==
    [][trace'.by = "drop" =>
          \A k \in DOMAIN pocket_objects :
              pocket_objects'[k] # pocket_objects[k] =>
                  /\ pocket_objects'[k].Id \in ObjIds
                  /\ Takeable[pocket_objects'[k].Id]]_vars

\* C34: between events no object is both held in a pocket and visible in
\* its view: the object of every pocket that is not empty has Visible false.
C34_PocketedObjectsHidden ==
    \A k \in DOMAIN pocket_objects :
        pocket_objects[k].Id \in ObjIds => ~Visible[pocket_objects[k].Id]

\* the object a HideObject rule of the environment names
Hidden(action) == IF action = act_Hide1 THEN 1 ELSE IF action = act_Hide2 THEN 2 ELSE 0

\* C35: when HideObject(o) has returned, no pocket holds o and the Visible
\* flag of o is off, also when a pocket held o as the action ran.
C35_HideObjectReleasesAndHides ==
    \A k \in 1..Len(trace.recs) :
        LET rec == trace.recs[k] IN
        (Hidden(rec.action) # 0 /\ ActionCalls(rec) # {}) =>
            /\ rec.raised = "no"
            /\ ~rec.after.Visible[Hidden(rec.action)]
            /\ \A q \in DOMAIN rec.after.pocket_objects :
                   rec.after.pocket_objects[q].Id # Hidden(rec.action)

\* HideObject(1) has just run while a pocket held object 1: the pocket is
\* empty and the object is hidden
C35_Witness ==
    /\ Len(trace.recs) = 1
    /\ trace.recs[1].action = act_Hide1
    /\ ActionCalls(trace.recs[1]) # {}
    /\ \E q \in DOMAIN pocket_objects :
           /\ trace.recs[1].before.pocket_objects[q].Id = 1
           /\ pocket_objects[q] = EmptyPocket
    /\ ~Visible[1]

\* no two pockets hold the same object
PocketsDisjoint ==
    \A j \in DOMAIN pocket_objects : \A k \in DOMAIN pocket_objects :
        (j # k /\ pocket_objects[j].Id \in ObjIds) =>
            pocket_objects[j].Id # pocket_objects[k].Id

\* a drop leaves a pocket that holds an object as it is
FullPocketsKept ==
    [][trace'.by \in {"drop", "pocket_drag"} =>
          \A k \in DOMAIN pocket_objects :
              pocket_objects[k].Id \in ObjIds => pocket_objects'[k] = pocket_objects[k]]_vars

\* C36: no object is held by two pockets at once, and a drop onto a pocket
\* that already holds an object never replaces what the pocket holds.
C36_OnePocketPerObject == []PocketsDisjoint /\ FullPocketsKept

\* pocket 0 holds object 1 and pocket 1 holds object 2, and the object of
\* pocket 0 has just been dragged onto pocket 1
C36_Witness ==
    /\ trace.by = "pocket_drag"
    /\ trace.from = 0
    /\ trace.pocket = 1
    /\ pocket_objects[0].Id = 1
    /\ pocket_objects[1].Id = 2

\* C37: evaluating the Condition of a rule changes nothing, whichever name
\* of the vocabulary the Condition calls: the variables, the Visible and
\* Takeable flags, the pockets, the current view and the key buffers are
\* after the condition what they were before it.
C37_ConditionChangesNothing ==
    trace.by = "rule" =>
        /\ \A k \in 1..Len(trace.recs) : trace.recs[k].mid = trace.recs[k].before
        /\ trace.key_buffers.mid = trace.key_buffers.before

\* C38: after any PortalTo calls, successful or failed, also several fired
\* by the rules of one event, the current view is a view of the environment,
\* no next view is pending, and the panel built last is the only open one
\* and shows the current view.
C38_OneOpenPanelOfCurrentView ==
    running =>
        /\ current_view_id.type = "int"
        /\ int_of(current_view_id.text) \in ViewIds
        /\ next_view_id = NoView
        /\ panels # << >>
        /\ ~panels[Len(panels)].closed
        /\ panels[Len(panels)].view_id = int_of(current_view_id.text)
        /\ \A k \in 1..(Len(panels) - 1) : panels[k].closed

\* key w has run PortalTo(2), PortalTo(9) and PortalTo(1) in view 1: two
\* panels were built, and the one of view 1 built last is open
C38_Witness ==
    /\ running
    /\ trace.by = "key"
    /\ Len(trace.recs) = 3
    /\ trace.recs[1].action = act_Portal2
    /\ trace.recs[2].action = act_Portal9
    /\ trace.recs[3].action = rule_text.Portal1
    /\ Len(panels) >= 3
    /\ panels[Len(panels) - 1].view_id = 2
    /\ panels[Len(panels) - 1].closed
    /\ panels[Len(panels)].view_id = 1
    /\ ~panels[Len(panels)].closed

\* the TotalTimePassed rules of the view of panel p that start_timers has to
\* schedule
ViewTotalRules(p) ==
    {i \in DOMAIN ViewActions[panels[p].view_id] :
        /\ Schedulable(ViewActions[panels[p].view_id][i])
        /\ valid_api_call(ViewActions[panels[p].view_id][i].Trigger)[1] = name_TotalTimePassed}

\* C39: a TotalTimePassed rule of a view's own Actions is scheduled on every
\* entry to the view: each run of start_timers on a panel of the view makes
\* a timer of that panel for the rule, which stays enabled, while the step
\* changes the Enabled flag of global rules only.
C39_ViewTotalRuleScheduledEachEntry ==
    [][\A p \in 1..Len(panels) :
           (trace'.by = "start_timers" /\ panels[p].timers_pending
                /\ ~panels'[p].timers_pending) =>
               \A i \in ViewTotalRules(p) :
                   /\ ViewActions[panels'[p].view_id][i].Enabled
                   /\ \E t \in timers' :
                          /\ t.rule = <<"view", i>>
                          /\ t.panel = p
                          /\ t.action = ViewActions[panels[p].view_id][i].Action]_vars

\* view 4 was entered a second time, and the timer its second panel made
\* for the view's TotalTimePassed rule has just run the rule's action for
\* the second time
C39_Witness ==
    /\ trace.by = "timer"
    /\ trace.shot.rule = <<"view", 1>>
    /\ trace.shot.panel = 2
    /\ panels[2].view_id = 4
    /\ trace.recs[1].action = act_IncS
    /\ StrVal(<<"s">>) \in DOMAIN Variables
    /\ Variables[StrVal(<<"s">>)] = StrVal(<<"2">>)

\* C40: for a compressed audio file, get_playback_path returns the file's
\* own path or the path of a cached WAV file that was converted from that
\* file, never one converted from another source, whatever ensure_cached
\* calls came before.
C40_PlaybackOfOwnSource ==
    (/\ cache_output.called
     /\ cache_output.outcome = "playback"
     /\ is_compressed_audio(cache_output.original)) =>
        \/ cache_output.result = PathOf(cache_output.original)
        \/ /\ cache_output.result = PathOf(get_cached_wav_path(cache_output.original))
           /\ cache_files[cache_output.original.stem].source = cache_output.original

=============================================================================
